---- MODULE Spec2Model ----
(***************************************************************************)
(* State-machine model of the streaming engine of binance-futures:         *)
(*   - OrderBookData.update        (future-orderbook.py,                   *)
(*                                  future-orderbook-spot.py)              *)
(*   - OrderFlowTrader footprint ingestion, archival and storage queue     *)
(*                                 (footprint.py)                          *)
(*   - OrderFlowTrader / OrderBookTrader reconnect back-off                *)
(*                                 (footprint.py, future-orderbook-spot.py)*)
(*                                                                         *)
(* Quantities and prices are Python floats in the source.  They are        *)
(* modelled as integers: a quantity is a number of lots, a trade price a   *)
(* number of 1/PriceScale dollars, so that int(price) is a real            *)
(* truncation.  Python objects that are shared by reference (the footprint *)
(* dicts) live in an explicit heap, so that aliasing and copying are       *)
(* distinguishable.                                                        *)
(***************************************************************************)
EXTENDS Integers, Sequences, FiniteSets, TLC

VARIABLES
    \* ---- order book (OrderBookData) ----
    book_variant,       \* which source file's OrderBookData is running
    price_levels,       \* self.price_levels : price -> [ask, bid]
    book_call,          \* the last call on the book and its arguments (observer)
    book_prev,          \* price_levels before the last call that wrote them (observer)
    \* ---- footprint ingestion (OrderFlowTrader) ----
    heap,               \* object id -> footprint dict
    footprint,          \* self.footprint : object id of the live window
    current_minute,     \* self.current_minute
    orderflow_history,  \* self.orderflow_history : sequence of object ids
    storage_queue,      \* self.storage_queue : sequence of records
    history_table,      \* the TinyDB table : sequence of stored documents
    ingest_pc,          \* position of the message handler
    pending,            \* the handler's local variables while it is mid-way
    last_kind,          \* how the last accepted trade was handled (observer)
    last_T,             \* the timestamp of the last accepted trade (observer)
    ntrades,            \* number of trades accepted (observer)
    accepted_volume,    \* sum of accepted trade quantities (observer)
    loaded_volume,      \* total volume of the windows loaded at startup
    evictions,          \* number of history entries popped (observer)
    last_msg,           \* outcome and keys of the last payload handled (observer)
    nbad,               \* payloads that ended without an accepted trade (observer)
    \* ---- connection supervisor ----
    is_running,         \* self.is_running
    reconnect_delay,    \* self.reconnect_delay
    hd_pc,              \* position of handle_disconnect in the heartbeat thread
    hd_depth,           \* recursion depth of handle_disconnect
    hd_read,            \* value of reconnect_delay read for the doubling
    hd_caller,          \* who entered handle_disconnect: heartbeat or on_close
    heartbeat,          \* the heartbeat thread: off, on, or dead of an exception
    now,                \* time.time(), in seconds
    last_message_time,  \* self.last_message_time
    fails,              \* consecutive failed attempts of the tracked run
    tracking,           \* the run started from the floor, undisturbed so far
    last_conn,          \* the last supervisor event (observer)
    \* ---- storage thread and shutdown (OrderFlowTrader) ----
    storage_lock,       \* self.storage_lock : the thread that holds it
    storage_pc,         \* position of footprint_storage_loop
    storage_running,    \* self._storage_running
    storage_taken,      \* data_to_save of the storage loop: <<>> or <<record>>
    shutdown_pc,        \* position of shutdown()
    \* ---- order book: derived prices (OrderBookData) ----
    current_price,      \* self.current_price
    best_bid,           \* self.best_bid
    best_ask,           \* self.best_ask
    \* ---- display (FootprintDisplay) ----
    is_viewing_history, \* self.is_viewing_history
    history_index,      \* self.history_index
    shown,              \* the dict get_display_data returned last: object id
    shown_value,        \* what that dict held when it was returned (observer)
    \* ---- analysis (OrderFlowTrader) ----
    support_resistance_levels,  \* self.support_resistance_levels
    sr_returned,        \* what analyze_support_resistance returned last
    reversal_signal,    \* what check_reversal_signals returned last
    imbalance_found,    \* what check_consecutive_imbalances returned last
    \* ---- threads in handle_disconnect and the websocket clients ----
    th_pc,              \* position of the heartbeat thread / the on_close callback
    th_read,            \* reconnect_delay as each thread read it for the doubling
    th_wake,            \* the time each thread's time.sleep is over
    umfclient,          \* self.umfclient: the id of a client
    handles,            \* every client created so far
    reconnected_at      \* time of the last successful reconnect (observer)

bookVars == <<book_variant, price_levels, book_call, book_prev,
              current_price, best_bid, best_ask>>
fpVars   == <<heap, footprint, current_minute, orderflow_history, storage_queue,
              history_table, ingest_pc, pending, last_kind, last_T, ntrades,
              accepted_volume, loaded_volume, evictions, last_msg, nbad>>
connVars == <<is_running, reconnect_delay, hd_pc, hd_depth, hd_read, now,
              last_message_time, fails, tracking, last_conn, hd_caller,
              heartbeat>>
storeVars == <<storage_lock, storage_pc, storage_running, storage_taken,
               shutdown_pc>>
viewVars == <<is_viewing_history, history_index, shown, shown_value>>
analysisVars == <<support_resistance_levels, sr_returned, reversal_signal,
                  imbalance_found>>
raceVars == <<th_pc, th_read, th_wake, umfclient, handles, reconnected_at>>
vars     == <<bookVars, fpVars, connVars, storeVars, viewVars, analysisVars,
              raceVars>>

None == -1
\* self.history_index = None (an index into the history is never positive)
NoIndex == 1
\* An attribute that no statement has assigned yet.
Unset == -2

(***************************************************************************)
(* Bounds of the model.                                                    *)
(***************************************************************************)
MaxPrice == 2       \* book prices are 1..MaxPrice
MaxQty   == 2       \* book quantities are -1..MaxQty
MaxTrades == 3      \* trades accepted by the footprint handler in one run
MaxStored == 4      \* documents in the TinyDB table at startup
HISTORY_LENGTH == 2 \* self.HISTORY_LENGTH, scaled down from 288
MaxDepth == 8       \* nested handle_disconnect calls the interpreter allows
MaxClock == 7       \* seconds the clock of the supervisor runs
MaxHandles == 3     \* websocket clients created in one run
RaceClock == 8      \* the heartbeat loop is followed up to this second
FloatBits == 3      \* bits of a float's significand, scaled down from 53
PriceScale == 2     \* a trade price p stands for p / PriceScale dollars
MaxBad == 2         \* payloads that end without an accepted trade in one run

BookPrices == 1..MaxPrice
BookQtys   == (-1)..MaxQty
Sides      == {"ask", "bid"}
Other(side) == IF side = "ask" THEN "bid" ELSE "ask"

(***************************************************************************)
(* OrderBookData                                                           *)
(***************************************************************************)
\* A dict without key k.
DictDel(d, k) == [x \in (DOMAIN d) \ {k} |-> d[x]]
\* A dict with d[k] = v (inserting k if needed).
DictPut(d, k, v) == [x \in (DOMAIN d) \cup {k} |-> IF x = k THEN v ELSE d[x]]

NewLevel == [ask |-> 0, bid |-> 0]

\* A slip: the quantity is added to the level instead of overwriting it.
UpdateAdding(levels, price, volume, side) ==
    IF volume > 0
    THEN LET lv == IF price \in DOMAIN levels THEN levels[price] ELSE NewLevel
         IN  DictPut(levels, price, [lv EXCEPT ![side] = @ + volume])
    ELSE IF price \in DOMAIN levels
         THEN LET lv == [levels[price] EXCEPT ![side] = 0]
              IN  IF lv.ask <= 0 /\ lv.bid <= 0
                  THEN DictDel(levels, price)
                  ELSE DictPut(levels, price, lv)
         ELSE levels

\* A slip: the side is cleared but an emptied level is never deleted.
UpdateNoDelete(levels, price, volume, side) ==
    IF volume > 0
    THEN LET lv == IF price \in DOMAIN levels THEN levels[price] ELSE NewLevel
         IN  DictPut(levels, price, [lv EXCEPT ![side] = volume])
    ELSE IF price \in DOMAIN levels
         THEN DictPut(levels, price, [levels[price] EXCEPT ![side] = 0])
         ELSE levels

\* OrderBookData.update of future-orderbook.py.
UpdateLevels(levels, price, volume, side) ==
    IF volume > 0
    THEN LET lv == IF price \in DOMAIN levels THEN levels[price] ELSE NewLevel
         IN  DictPut(levels, price, [lv EXCEPT ![side] = volume])
    ELSE IF price \in DOMAIN levels
         THEN LET lv == [levels[price] EXCEPT ![side] = 0]
              IN  IF lv.ask <= 0 /\ lv.bid <= 0
                  THEN DictDel(levels, price)
                  ELSE DictPut(levels, price, lv)
         ELSE levels

\* OrderBookData.update of future-orderbook-spot.py: the emptiness test is
\* "== 0" instead of "<= 0".
UpdateLevelsSpot(levels, price, volume, side) ==
    IF volume > 0
    THEN LET lv == IF price \in DOMAIN levels THEN levels[price] ELSE NewLevel
         IN  DictPut(levels, price, [lv EXCEPT ![side] = volume])
    ELSE IF price \in DOMAIN levels
         THEN LET lv == [levels[price] EXCEPT ![side] = 0]
              IN  IF lv.ask = 0 /\ lv.bid = 0
                  THEN DictDel(levels, price)
                  ELSE DictPut(levels, price, lv)
         ELSE levels

NoCall == [price |-> 0, volume |-> 0, side |-> "none"]

BookInit ==
    /\ book_variant \in {"futures", "spot"}
    /\ price_levels = <<>>
    /\ book_call = NoCall
    /\ book_prev = <<>>
    /\ current_price = None
    /\ best_bid = Unset
    /\ best_ask = Unset

\* One call self.orderbook.update(price, volume, side).
Update(price, volume, side) ==
    /\ price_levels' = IF book_variant = "futures"
                       THEN UpdateLevels(price_levels, price, volume, side)
                       ELSE UpdateLevelsSpot(price_levels, price, volume, side)
    /\ book_call' = [price |-> price, volume |-> volume, side |-> side]
    /\ book_prev' = price_levels
    /\ UNCHANGED <<book_variant, fpVars, connVars, storeVars, current_price,
                   best_bid, best_ask, viewVars, analysisVars, raceVars>>


(***************************************************************************)
(* Footprint windows                                                       *)
(***************************************************************************)
FiveMinutesMs == 300000
DayMs         == 86400000
\* time.time() * 1000 when load_history_from_db runs.
StartupNowMs  == 89400000
Symbol        == "btcusdt"

\* OrderFlowTrader.get_minute_str: the 5-minute bucket of a millisecond
\* timestamp.  The source renders it as the string YYYYMMDDHHMM with the
\* minute floored to a multiple of 5; the bucket index stands for that string.
GetMinuteStr(timestamp_ms) == timestamp_ms \div FiveMinutesMs

\* str(int(price)): the price level of a trade price, truncated to TICK_SIZE.
PriceLevel(price) == price \div PriceScale

Range(seq) == {seq[i] : i \in DOMAIN seq}

\* OrderFlowTrader.new_minute_footprint: the dict it returns.
NewMinuteFootprint ==
    [time |-> None, open |-> None, high |-> None, low |-> None, close |-> None,
     total_volume |-> 0, buy_volume |-> 0, sell_volume |-> 0, delta |-> 0,
     order_flows |-> <<>>]

NewFlow == [buy_volume |-> 0, sell_volume |-> 0, order_count |-> 0]

\* side = 'sell' if message.get('m', False) else 'buy'
TradeSide(t) == IF t.m THEN "sell" ELSE "buy"

\* The first branch pair of spot_message_handler: a fresh window whose
\* time and OHLC come from the trade that opens it.
OpenWindow(t) ==
    [NewMinuteFootprint EXCEPT !.time = t.T, !.open = t.p, !.high = t.p,
                               !.low = t.p, !.close = t.p]

\* A slip: high follows every trade as close does.
WidenWindowHighFollows(w, t) ==
    [w EXCEPT !.close = t.p,
              !.high = t.p,
              !.low  = IF t.p < @ THEN t.p ELSE @]

\* The else branch: close follows the trade, high and low widen.
WidenWindow(w, t) ==
    [w EXCEPT !.close = t.p,
              !.high = IF t.p > @ THEN t.p ELSE @,
              !.low  = IF t.p < @ THEN t.p ELSE @]

\* Volumes are Python floats: binary numbers with a significand of
\* FloatBits bits (the model counts a volume in units of the smallest
\* quantity).  The spacing of the floats around the magnitude n:
RECURSIVE FloatStep(_, _)
FloatStep(n, step) ==
    IF n < step * 2^FloatBits THEN step ELSE FloatStep(n, 2 * step)

\* The float nearest to n, a tie going to the even significand.
RoundFloat(n) ==
    LET mag   == IF n < 0 THEN -n ELSE n
        step  == FloatStep(mag, 1)
        lower == (mag \div step) * step
        rem   == mag - lower
        near  == IF 2 * rem < step THEN lower
                 ELSE IF 2 * rem > step THEN lower + step
                 ELSE IF (lower \div step) % 2 = 0 THEN lower
                 ELSE lower + step
    IN  IF n < 0 THEN -near ELSE near

\* x + y and x - y on floats.
FloatAdd(x, y) == RoundFloat(x + y)
FloatSub(x, y) == RoundFloat(x - y)

\* The tail of spot_message_handler: totals, the price level, delta.
Accumulate(w, t) ==
    LET side  == TradeSide(t)
        w1    == [w EXCEPT
                    !.total_volume = FloatAdd(@, t.q),
                    !.buy_volume  = IF side = "buy" THEN FloatAdd(@, t.q) ELSE @,
                    !.sell_volume = IF side = "buy" THEN @ ELSE FloatAdd(@, t.q)]
        lvl   == PriceLevel(t.p)
        old   == IF lvl \in DOMAIN w1.order_flows
                 THEN w1.order_flows[lvl] ELSE NewFlow
        new   == [old EXCEPT
                    !.buy_volume  = IF side = "buy" THEN FloatAdd(@, t.q) ELSE @,
                    !.sell_volume = IF side = "buy" THEN @ ELSE FloatAdd(@, t.q),
                    !.order_count = @ + 1]
        w2    == [w1 EXCEPT !.order_flows = DictPut(w1.order_flows, lvl, new)]
    IN  [w2 EXCEPT !.delta = FloatSub(w2.buy_volume, w2.sell_volume)]

(***************************************************************************)
(* The heap of footprint dicts                                             *)
(***************************************************************************)
\* The id of a newly created object.
Alloc(h) == CHOOSE i \in 1..(Cardinality(DOMAIN h) + 1) : i \notin DOMAIN h

\* Objects no reference reaches are reclaimed.  The references are the
\* live window, the history, the queued records and the dict the display
\* was given.
Collect(h, fp, hist, queue) ==
    LET live == {fp} \cup Range(hist) \cup {shown}
                     \cup {queue[i].data : i \in DOMAIN queue}
    IN  [i \in (DOMAIN h) \cap live |-> h[i]]

(***************************************************************************)
(* The TinyDB table and load_history_from_db                               *)
(***************************************************************************)
\* The i-th document of the table at startup, in insertion order.  The first
\* one is older than 24 hours, the others are recent and one window apart.
DbTimestamp(i) ==
    IF i = 1 THEN 2 * FiveMinutesMs
             ELSE StartupNowMs - (MaxStored + 2 - i) * FiveMinutesMs

DbWindow(i) ==
    LET price == 100 * PriceScale
    IN  [time |-> DbTimestamp(i), open |-> price, high |-> price, low |-> price,
         close |-> price, total_volume |-> 1, buy_volume |-> 1,
         sell_volume |-> 0, delta |-> 1,
         order_flows |-> DictPut(<<>>, PriceLevel(price),
                                 [buy_volume |-> 1, sell_volume |-> 0,
                                  order_count |-> 1])]

DbDoc(i) ==
    [symbol |-> Symbol, timestamp |-> DbTimestamp(i),
     minute_str |-> GetMinuteStr(DbTimestamp(i)), data |-> DbWindow(i)]

\* The documents of a sequence that satisfy a test, in order.
RECURSIVE SelectDocs(_, _)
SelectDocs(docs, since) ==
    IF docs = <<>> THEN <<>>
    ELSE LET rest == SelectDocs(Tail(docs), since)
         IN  IF Head(docs).timestamp > since /\ Head(docs).symbol = Symbol
             THEN <<Head(docs)>> \o rest ELSE rest

\* list.sort(key=timestamp, reverse=True): stable, largest timestamp first.
RECURSIVE InsertDesc(_, _)
InsertDesc(sorted, d) ==
    IF sorted = <<>> THEN <<d>>
    ELSE IF Head(sorted).timestamp >= d.timestamp
         THEN <<Head(sorted)>> \o InsertDesc(Tail(sorted), d)
         ELSE <<d>> \o sorted

RECURSIVE SortDesc(_)
SortDesc(docs) ==
    IF docs = <<>> THEN <<>>
    ELSE InsertDesc(SortDesc(SubSeq(docs, 1, Len(docs) - 1)), docs[Len(docs)])

\* results[:n]
Take(seq, n) == SubSeq(seq, 1, IF Len(seq) < n THEN Len(seq) ELSE n)

\* load_history_from_db: the documents whose data become orderflow_history.
LoadedDocs(table) ==
    Take(SortDesc(SelectDocs(table, StartupNowMs - DayMs)), HISTORY_LENGTH)

RECURSIVE SumVolume(_, _)
\* The sum of total_volume over the windows a sequence of ids refers to.
SumVolume(h, ids) ==
    IF ids = <<>> THEN 0
    ELSE h[Head(ids)].total_volume + SumVolume(h, Tail(ids))

(***************************************************************************)
(* OrderFlowTrader: construction                                           *)
(***************************************************************************)
\* The keys of an aggTrade payload that the handler reads.
AllKeys == {"T", "p", "q", "m"}

NoTrade == [T |-> None, p |-> None, q |-> 0, m |-> FALSE, has |-> {}]
NoMessage == [outcome |-> "none", has |-> {}]

\* Inbound aggTrade messages: T, p, q and m of the payload, and the keys
\* the payload has (all of them in a well-formed message).
TradeTimes  == {StartupNowMs + FiveMinutesMs,
                StartupNowMs + FiveMinutesMs + 100000,
                StartupNowMs + 2 * FiveMinutesMs}
TradePrices == {100 * PriceScale + 1, 101 * PriceScale}
TradeQtys   == {1, 2}
Trades      == [T : TradeTimes, p : TradePrices, q : TradeQtys, m : BOOLEAN,
                has : {AllKeys}]

\* __init__ of OrderFlowTrader: an empty live window, an empty queue, and
\* the history loaded from the table, which is empty (a first run) or holds
\* MaxStored documents.
FpInit ==
    \E n \in {0, MaxStored} :
        LET table == [i \in 1..n |-> DbDoc(i)]
            docs  == LoadedDocs(table)
            k     == Len(docs)
        IN  /\ history_table = table
            /\ heap = [i \in 1..(k + 1) |->
                         IF i = 1 THEN NewMinuteFootprint ELSE docs[i - 1].data]
            /\ footprint = 1
            /\ orderflow_history = [i \in 1..k |-> i + 1]
            /\ loaded_volume = SumVolume(heap, orderflow_history)
            /\ current_minute = None
            /\ storage_queue = <<>>
            /\ ingest_pc = "idle"
            /\ pending = NoTrade
            /\ last_kind = "none"
            /\ last_T = None
            /\ ntrades = 0
            /\ accepted_volume = 0
            /\ evictions = 0
            /\ last_msg = NoMessage
            /\ nbad = 0

\* The footprint state of a trader that receives no trade.
FpIdle ==
    /\ history_table = <<>>
    /\ heap = [i \in {1} |-> NewMinuteFootprint]
    /\ footprint = 1
    /\ orderflow_history = <<>>
    /\ loaded_volume = 0
    /\ current_minute = None
    /\ storage_queue = <<>>
    /\ ingest_pc = "idle"
    /\ pending = NoTrade
    /\ last_kind = "none"
    /\ last_T = None
    /\ ntrades = 0
    /\ accepted_volume = 0
    /\ evictions = 0
    /\ last_msg = NoMessage
    /\ nbad = 0

\* __init__ of OrderFlowTrader: the storage lock is free, the storage thread
\* is started and shutdown has not been called.
StoreInit ==
    /\ storage_lock = "free"
    /\ storage_pc = "sleep"
    /\ storage_running = TRUE
    /\ storage_taken = <<>>
    /\ shutdown_pc = "none"

\* __init__ of FootprintDisplay: the live window is on display.
ViewInit ==
    /\ is_viewing_history = FALSE
    /\ history_index = NoIndex
    /\ shown = None
    /\ shown_value = None

NotCalled == [called |-> FALSE, value |-> <<>>, raised |-> FALSE]
NoSignalYet == [signal |-> "unset", level_price |-> None]

\* __init__ of OrderFlowTrader: no level found yet, no detector has run.
AnalysisInit ==
    /\ support_resistance_levels = <<>>
    /\ sr_returned = NotCalled
    /\ reversal_signal = NoSignalYet
    /\ imbalance_found = "unset"

\* The state outside ingestion of a trader whose display and detectors are
\* left alone.
\* The two threads that can be inside handle_disconnect.
Threads == {"heartbeat", "on_close"}

NewClient == [stopped |-> FALSE, subscribed |-> FALSE, closed |-> FALSE]

\* __init__: create_websocket_client has made the first client; no thread
\* is in handle_disconnect and the heartbeat thread is not started.
RaceInit ==
    /\ th_pc = [th \in Threads |-> "idle"]
    /\ th_read = [th \in Threads |-> 0]
    /\ th_wake = [th \in Threads |-> 0]
    /\ umfclient = 1
    /\ handles = <<NewClient>>
    /\ reconnected_at = None

RestInit == StoreInit /\ ViewInit /\ AnalysisInit /\ RaceInit

BookIdle ==
    /\ book_variant = "futures"
    /\ price_levels = <<>>
    /\ book_call = NoCall
    /\ book_prev = <<>>
    /\ current_price = None
    /\ best_bid = Unset
    /\ best_ask = Unset

(***************************************************************************)
(* Connection supervisor: construction and the message handler's prologue  *)
(***************************************************************************)
ReconnectFloor    == 1      \* self.reconnect_delay = 1
MaxReconnectDelay == 60     \* self.max_reconnect_delay

ConnInit ==
    /\ is_running = FALSE
    /\ reconnect_delay = ReconnectFloor
    /\ hd_pc = "idle"
    /\ hd_depth = 0
    /\ hd_read = 0
    /\ now = 0
    /\ last_message_time = 0
    /\ fails = 0
    /\ tracking = FALSE
    /\ last_conn = "none"
    /\ hd_caller = "none"
    /\ heartbeat = "off"

\* A slip: the handler resets the delay to 0.
TouchConnectionResetsToZero ==
    /\ last_message_time' = now
    /\ reconnect_delay' = 0
    /\ tracking' = FALSE
    /\ fails' = 0
    /\ last_conn' = "message"
    /\ UNCHANGED <<is_running, hd_pc, hd_depth, hd_read, now, hd_caller,
                   heartbeat>>

\* The first statements of spot_message_handler / message_handler, executed
\* for every inbound payload before it is decoded.
TouchConnection ==
    /\ last_message_time' = now
    /\ reconnect_delay' = ReconnectFloor
    /\ tracking' = FALSE
    /\ fails' = 0
    /\ last_conn' = "message"
    /\ UNCHANGED <<is_running, hd_pc, hd_depth, hd_read, now, hd_caller,
                   heartbeat>>

(***************************************************************************)
(* OrderFlowTrader.spot_message_handler on an aggTrade payload             *)
(***************************************************************************)
\* A slip: only a later window starts a new footprint.
IsNewMinuteIfLater(minute_str, current) == minute_str > current

\* elif minute_str != self.current_minute
IsNewMinute(minute_str, current) == minute_str # current

\* save_to_db: the record appended to the storage queue.  Its 'data' is the
\* footprint dict itself (a reference), not a copy.
SaveRecord(h, fp) ==
    [symbol |-> Symbol, timestamp |-> h[fp].time,
     minute_str |-> GetMinuteStr(h[fp].time), data |-> fp]

\* A slip: delta is left as it was.
AccumulateStaleDelta(w, t) == [Accumulate(w, t) EXCEPT !.delta = w.delta]

\* The tail of the handler as the handler applies it.
ApplyTrade(w, t) == Accumulate(w, t)

Accepted(kind, t) ==
    /\ last_kind' = kind
    /\ last_T' = t.T
    /\ ntrades' = ntrades + 1
    /\ accepted_volume' = accepted_volume + t.q
    /\ last_msg' = [outcome |-> "accepted", has |-> t.has]

\* shutdown() has run to its end: the client is stopped and the database
\* is closed.
ShutdownReturned == shutdown_pc \in {"done", "flush2", "done2"}

\* The client calls on_message until it is stopped.
Delivering == ~ShutdownReturned

\* The first trade ever: current_minute is None.
FirstTrade(t) ==
    /\ ingest_pc = "idle"
    /\ Delivering
    /\ ntrades < MaxTrades
    /\ current_minute = None
    /\ TouchConnection
    /\ LET id == Alloc(heap)
           h1 == DictPut(heap, id, ApplyTrade(OpenWindow(t), t))
       IN  /\ footprint' = id
           /\ heap' = Collect(h1, id, orderflow_history,
                          storage_taken \o storage_queue)
    /\ current_minute' = GetMinuteStr(t.T)
    /\ Accepted("first", t)
    /\ UNCHANGED <<orderflow_history, storage_queue, history_table, ingest_pc,
                   pending, loaded_volume, nbad, evictions, bookVars,
                   storeVars, viewVars, analysisVars, raceVars>>

\* A trade of the current window: the live dict is updated in place.
SameWindow(t) ==
    /\ ingest_pc = "idle"
    /\ Delivering
    /\ ntrades < MaxTrades
    /\ current_minute # None
    /\ ~IsNewMinute(GetMinuteStr(t.T), current_minute)
    /\ TouchConnection
    /\ heap' = [heap EXCEPT ![footprint] = ApplyTrade(WidenWindow(@, t), t)]
    /\ Accepted("same", t)
    /\ UNCHANGED <<footprint, current_minute, orderflow_history,
                   storage_queue, history_table, ingest_pc, pending,
                   loaded_volume, nbad, evictions, bookVars, storeVars,
                   viewVars, analysisVars, raceVars>>

\* A slip: the trade that changes the window is added to the closing window
\* before evaluate_minute archives it.
RolloverBeginCountingTrade(t) ==
    /\ ingest_pc = "idle"
    /\ ntrades < MaxTrades
    /\ current_minute # None
    /\ IsNewMinute(GetMinuteStr(t.T), current_minute)
    /\ TouchConnection
    /\ LET h1 == [heap EXCEPT ![footprint] = ApplyTrade(WidenWindow(@, t), t)]
           id == Alloc(h1)
       IN  /\ storage_queue' = Append(storage_queue, SaveRecord(h1, footprint))
           /\ heap' = DictPut(h1, id, h1[footprint])
           /\ orderflow_history' = Append(orderflow_history, id)
    /\ pending' = t
    /\ ingest_pc' = "evict"
    /\ UNCHANGED <<footprint, current_minute, history_table, last_kind,
                   last_msg, last_T, ntrades, accepted_volume, loaded_volume,
                   nbad, evictions, bookVars, storeVars, viewVars,
                   analysisVars, raceVars>>

\* A slip: evaluate_minute runs twice for one window change.
RolloverBeginArchivingTwice(t) ==
    /\ ingest_pc = "idle"
    /\ ntrades < MaxTrades
    /\ current_minute # None
    /\ IsNewMinute(GetMinuteStr(t.T), current_minute)
    /\ TouchConnection
    /\ LET h1  == [heap EXCEPT ![footprint].delta =
                       heap[footprint].buy_volume - heap[footprint].sell_volume]
           id1 == Alloc(h1)
           h2  == DictPut(h1, id1, h1[footprint])
           id2 == Alloc(h2)
           rec == SaveRecord(h1, footprint)
       IN  /\ storage_queue' = storage_queue \o <<rec, rec>>
           /\ heap' = DictPut(h2, id2, h1[footprint])
           /\ orderflow_history' = orderflow_history \o <<id1, id2>>
    /\ pending' = t
    /\ ingest_pc' = "evict"
    /\ UNCHANGED <<footprint, current_minute, history_table, last_kind,
                   last_msg, last_T, ntrades, accepted_volume, loaded_volume,
                   nbad, evictions, bookVars, storeVars, viewVars,
                   analysisVars, raceVars>>

\* A trade of another window, up to the append in evaluate_minute: delta is
\* recomputed, the live dict is queued for storage (save_to_db takes
\* storage_lock for the append) and a deep copy of it is appended to the
\* history.  Other threads run before the handler goes on.
RolloverBegin(t) ==
    /\ ingest_pc = "idle"
    /\ Delivering
    /\ storage_lock = "free"
    /\ ntrades < MaxTrades
    /\ current_minute # None
    /\ IsNewMinute(GetMinuteStr(t.T), current_minute)
    /\ TouchConnection
    /\ LET h1 == [heap EXCEPT ![footprint].delta =
                       FloatSub(heap[footprint].buy_volume,
                                heap[footprint].sell_volume)]
           id == Alloc(h1)
       IN  /\ storage_queue' = Append(storage_queue, SaveRecord(h1, footprint))
           /\ heap' = DictPut(h1, id, h1[footprint])
           /\ orderflow_history' = Append(orderflow_history, id)
    /\ pending' = t
    /\ ingest_pc' = "evict"
    /\ UNCHANGED <<footprint, current_minute, history_table, last_kind,
                   last_msg, last_T, ntrades, accepted_volume, loaded_volume,
                   nbad, evictions, bookVars, storeVars, viewVars,
                   analysisVars, raceVars>>

\* A slip: the live dict is not replaced by a new one at the window change.
RolloverFinishKeepWindow ==
    /\ ingest_pc = "evict"
    /\ LET over == Len(orderflow_history) > HISTORY_LENGTH
           hist == IF over THEN Tail(orderflow_history) ELSE orderflow_history
           h1   == [heap EXCEPT ![footprint] =
                        ApplyTrade(WidenWindow(@, pending), pending)]
       IN  /\ orderflow_history' = hist
           /\ evictions' = IF over THEN evictions + 1 ELSE evictions
           /\ footprint' = footprint
           /\ heap' = Collect(h1, footprint, hist,
                          storage_taken \o storage_queue)
    /\ current_minute' = GetMinuteStr(pending.T)
    /\ Accepted("rollover", pending)
    /\ pending' = NoTrade
    /\ ingest_pc' = "idle"
    /\ UNCHANGED <<storage_queue, history_table, loaded_volume, nbad,
                   bookVars, storeVars, connVars, viewVars, analysisVars,
                   raceVars>>

\* A slip: the live dict is emptied and reused for the new window instead of
\* being replaced by the dict new_minute_footprint() returns.
RolloverFinishReusingDict ==
    /\ ingest_pc = "evict"
    /\ LET over == Len(orderflow_history) > HISTORY_LENGTH
           hist == IF over THEN Tail(orderflow_history) ELSE orderflow_history
           h1   == [heap EXCEPT ![footprint] =
                        ApplyTrade(OpenWindow(pending), pending)]
       IN  /\ orderflow_history' = hist
           /\ evictions' = IF over THEN evictions + 1 ELSE evictions
           /\ footprint' = footprint
           /\ heap' = Collect(h1, footprint, hist,
                          storage_taken \o storage_queue)
    /\ current_minute' = GetMinuteStr(pending.T)
    /\ Accepted("rollover", pending)
    /\ pending' = NoTrade
    /\ ingest_pc' = "idle"
    /\ UNCHANGED <<storage_queue, history_table, loaded_volume, nbad,
                   bookVars, storeVars, connVars, viewVars, analysisVars,
                   raceVars>>

\* The rest of the handler after the append: the oldest entry is popped
\* when the history is over its length, a new live dict is created from
\* the trade, and the trade is accumulated into it.
RolloverFinish ==
    /\ ingest_pc = "evict"
    /\ LET over == Len(orderflow_history) > HISTORY_LENGTH
           hist == IF over THEN Tail(orderflow_history) ELSE orderflow_history
           id   == Alloc(heap)
           h1   == DictPut(heap, id, ApplyTrade(OpenWindow(pending), pending))
       IN  /\ orderflow_history' = hist
           /\ evictions' = IF over THEN evictions + 1 ELSE evictions
           /\ footprint' = id
           /\ heap' = Collect(h1, id, hist,
                          storage_taken \o storage_queue)
    /\ current_minute' = GetMinuteStr(pending.T)
    /\ Accepted("rollover", pending)
    /\ pending' = NoTrade
    /\ ingest_pc' = "idle"
    /\ UNCHANGED <<storage_queue, history_table, loaded_volume, nbad,
                   bookVars, storeVars, connVars, viewVars, analysisVars,
                   raceVars>>

(***************************************************************************)
(* spot_message_handler on payloads that are not well-formed trades        *)
(***************************************************************************)
\* The key sets of aggTrade payloads: complete, or one key short.
KeySets == {AllKeys} \cup {AllKeys \ {k} : k \in AllKeys}

\* aggTrade payloads as they arrive: the values of T, p, q and m, the keys
\* the JSON object has, and the keys whose value is text that is no number.
\* The value of a key the payload lacks plays no part.
Payloads ==
    {msg \in [T : TradeTimes, p : {101 * PriceScale}, q : {1}, m : {TRUE},
              has : KeySets, text : {{}, {"T"}, {"p"}, {"q"}}] :
        msg.text \subseteq msg.has}

\* How the handler leaves lines 773-783 on an aggTrade payload:
\*   get_minute_str(message.get('T')) divides None or a str by 1000 and
\*     raises TypeError, outside every try;
\*   float(message.get('p')) raises on None and on text, inside the try,
\*     and so does float(message.get('q', 0)) on text: the handler returns;
\*   otherwise the trade goes on, with 0 for a missing q and False for a
\*     missing m.
ParseOutcome(msg) ==
    IF "T" \notin msg.has \/ "T" \in msg.text THEN "raised"
    ELSE IF "p" \notin msg.has \/ "p" \in msg.text \/ "q" \in msg.text
         THEN "discarded"
         ELSE "trade"

\* price, volume, side and trade_time as lines 773-779 compute them.
ParsedTrade(msg) ==
    [T |-> msg.T, p |-> msg.p,
     q |-> IF "q" \in msg.has THEN msg.q ELSE 0,
     m |-> IF "m" \in msg.has THEN msg.m ELSE FALSE,
     has |-> msg.has]

ParsedTrades ==
    {ParsedTrade(msg) : msg \in {x \in Payloads : ParseOutcome(x) = "trade"}}

\* The handler ends without accepting a trade: nothing of the footprint
\* state is assigned.
NotAccepted(outcome, has) ==
    /\ ingest_pc = "idle"
    /\ nbad < MaxBad
    /\ nbad' = nbad + 1
    /\ last_msg' = [outcome |-> outcome, has |-> has]
    /\ UNCHANGED <<heap, footprint, current_minute, orderflow_history,
                   storage_queue, history_table, ingest_pc, pending,
                   last_kind, last_T, ntrades, accepted_volume,
                   loaded_volume, evictions>>
    /\ UNCHANGED <<bookVars, storeVars, viewVars, analysisVars, raceVars>>

\* A payload json.loads cannot decode: the prologue has run, the exception
\* is printed and the handler returns (lines 759-768).
Undecodable ==
    /\ TouchConnection
    /\ NotAccepted("undecodable", {})

\* A payload that decodes to a list, a number or a string: message.get at
\* line 770 raises AttributeError, which leaves the handler.
NotAnObject ==
    /\ TouchConnection
    /\ NotAccepted("raised", {})

\* An aggTrade payload whose timestamp is missing or text: line 774 raises.
TradeRaises(msg) ==
    /\ ParseOutcome(msg) = "raised"
    /\ TouchConnection
    /\ NotAccepted("raised", msg.has)

\* An aggTrade payload whose price or quantity float() rejects: the except
\* at line 781 prints and returns.
TradeDiscarded(msg) ==
    /\ ParseOutcome(msg) = "discarded"
    /\ TouchConnection
    /\ NotAccepted("discarded", msg.has)

(***************************************************************************)
(* footprint_storage_loop                                                  *)
(***************************************************************************)
\* The document history_table.insert writes: the record with its data
\* serialised as the dict is at that moment.
StoredDoc(h, rec) ==
    [symbol |-> rec.symbol, timestamp |-> rec.timestamp,
     minute_str |-> rec.minute_str, data |-> h[rec.data]]

\* One round of the loop with a non-empty queue whose insert succeeds.
StorageInsert ==
    /\ storage_queue # <<>>
    /\ history_table' = Append(history_table, StoredDoc(heap, Head(storage_queue)))
    /\ storage_queue' = Tail(storage_queue)
    /\ heap' = Collect(heap, footprint, orderflow_history, Tail(storage_queue))
    /\ UNCHANGED <<footprint, current_minute, orderflow_history, ingest_pc,
                   pending, last_kind, last_msg, last_T, ntrades,
                   accepted_volume, loaded_volume, nbad, evictions, bookVars,
                   storeVars, connVars, viewVars, analysisVars, raceVars>>

\* One round of the loop whose insert raises: the exception is printed and
\* the popped record is gone.
StorageInsertFails ==
    /\ storage_queue # <<>>
    /\ storage_queue' = Tail(storage_queue)
    /\ heap' = Collect(heap, footprint, orderflow_history, Tail(storage_queue))
    /\ UNCHANGED <<footprint, current_minute, orderflow_history,
                   history_table, ingest_pc, pending, last_kind, last_msg,
                   last_T, ntrades, accepted_volume, loaded_volume, nbad,
                   evictions, bookVars, storeVars, connVars, viewVars,
                   analysisVars, raceVars>>

Init == BookIdle /\ FpInit /\ ConnInit /\ RestInit

\* The ingestion path: the message handler on aggTrade payloads.
Next ==
    \/ \E t \in Trades : FirstTrade(t)
    \/ \E t \in Trades : SameWindow(t)
    \/ \E t \in Trades : RolloverBegin(t)
    \/ RolloverFinish

Spec == Init /\ [][Next]_vars

\* The ingestion path together with the storage thread.
NextStore ==
    \/ \E t \in Trades : FirstTrade(t)
    \/ \E t \in Trades : SameWindow(t)
    \/ \E t \in Trades : RolloverBegin(t)
    \/ RolloverFinish
    \/ StorageInsert
    \/ StorageInsertFails

SpecStore == Init /\ [][NextStore]_vars

\* The message handler on every kind of payload.
NextFeed ==
    \/ \E t \in ParsedTrades : FirstTrade(t)
    \/ \E t \in ParsedTrades : SameWindow(t)
    \/ \E t \in ParsedTrades : RolloverBegin(t)
    \/ RolloverFinish
    \/ \E msg \in Payloads : TradeRaises(msg)
    \/ \E msg \in Payloads : TradeDiscarded(msg)
    \/ Undecodable
    \/ NotAnObject

SpecFeed == Init /\ [][NextFeed]_vars

\* The message handler on trades at three prices, in two windows.
OhlcPrices == {100 * PriceScale, 100 * PriceScale + 1, 101 * PriceScale}
OhlcTrades ==
    {t \in [T : TradeTimes, p : OhlcPrices, q : {1}, m : {FALSE},
            has : {AllKeys}] : t.T # StartupNowMs + FiveMinutesMs + 100000}

NextOhlc ==
    \/ \E t \in OhlcTrades : FirstTrade(t)
    \/ \E t \in OhlcTrades : SameWindow(t)
    \/ \E t \in OhlcTrades : RolloverBegin(t)
    \/ RolloverFinish

SpecOhlc == Init /\ [][NextOhlc]_vars

\* The message handler on trades of a small and of a large quantity.
LedgerTrades ==
    [T : TradeTimes, p : {100 * PriceScale, 101 * PriceScale},
     q : {1, 2^FloatBits}, m : BOOLEAN, has : {AllKeys}]

NextLedger ==
    \/ \E t \in LedgerTrades : FirstTrade(t)
    \/ \E t \in LedgerTrades : SameWindow(t)
    \/ \E t \in LedgerTrades : RolloverBegin(t)
    \/ RolloverFinish

SpecLedger == Init /\ [][NextLedger]_vars

\* The order book alone.
InitBook == BookInit /\ FpIdle /\ ConnInit /\ RestInit
NextBook ==
    \E price \in BookPrices, volume \in BookQtys, side \in Sides :
        Update(price, volume, side)
SpecBook == InitBook /\ [][NextBook]_vars

(***************************************************************************)
(* OrderBookData: update_current_price, _update_best_prices and            *)
(* clean_old_levels                                                        *)
(***************************************************************************)
BookPriceRange == 1   \* self.price_range, scaled down from 4 * 3600

\* The prices of the trades: from just below the book to far above it.
BookTradePrices == 0..(MaxPrice + BookPriceRange + 1)

\* The loop of _update_best_prices: the highest price with bid > 0 and the
\* lowest price with ask > 0, None when there is no such level.
BestOf(levels, side) ==
    LET with == {p \in DOMAIN levels : levels[p][side] > 0}
    IN  IF with = {} THEN None
        ELSE IF side = "bid"
             THEN CHOOSE p \in with : \A q \in with : q <= p
             ELSE CHOOSE p \in with : \A q \in with : p <= q

\* One call self.orderbook.update_current_price(price).
UpdateCurrentPrice(price) ==
    /\ current_price' = price
    /\ book_call' = [price |-> price, volume |-> 0, side |-> "trade"]
    /\ UNCHANGED <<book_variant, price_levels, book_prev, best_bid, best_ask,
                   fpVars, connVars, storeVars, viewVars, analysisVars,
                   raceVars>>

\* One call self.orderbook._update_best_prices(): the two attributes are
\* assigned, and current_price becomes the best bid when there is one.
UpdateBestPrices ==
    /\ best_bid' = BestOf(price_levels, "bid")
    /\ best_ask' = BestOf(price_levels, "ask")
    /\ current_price' = IF BestOf(price_levels, "bid") # None
                        THEN BestOf(price_levels, "bid")
                        ELSE current_price
    /\ book_call' = [price |-> 0, volume |-> 0, side |-> "best"]
    /\ UNCHANGED <<book_variant, price_levels, book_prev, fpVars, connVars,
                   storeVars, viewVars, analysisVars, raceVars>>

\* The dict comprehension of clean_old_levels around the price current.
LevelsWithin(levels, current, range) ==
    [p \in {q \in DOMAIN levels : current - range <= q /\ q <= current + range}
        |-> levels[p]]

\* A slip: the bounds of the interval are excluded.
CleanOldLevelsExclusive ==
    /\ price_levels' =
           IF current_price = None THEN price_levels
           ELSE [p \in {q \in DOMAIN price_levels :
                           /\ current_price - BookPriceRange < q
                           /\ q < current_price + BookPriceRange}
                    |-> price_levels[p]]
    /\ book_call' = [price |-> 0, volume |-> 0, side |-> "clean"]
    /\ book_prev' = price_levels
    /\ UNCHANGED <<book_variant, current_price, best_bid, best_ask,
                   fpVars, connVars, storeVars, viewVars, analysisVars,
                   raceVars>>

\* One call self.orderbook.clean_old_levels(): it returns at once while
\* current_price is None.
CleanOldLevels ==
    /\ price_levels' =
           IF current_price = None THEN price_levels
           ELSE LevelsWithin(price_levels, current_price, BookPriceRange)
    /\ book_call' = [price |-> 0, volume |-> 0, side |-> "clean"]
    /\ book_prev' = price_levels
    /\ UNCHANGED <<book_variant, current_price, best_bid, best_ask,
                   fpVars, connVars, storeVars, viewVars, analysisVars,
                   raceVars>>

\* The whole interface of OrderBookData.
NextQuote ==
    \/ \E price \in BookPrices, volume \in BookQtys, side \in Sides :
           Update(price, volume, side)
    \/ \E price \in BookTradePrices : UpdateCurrentPrice(price)
    \/ UpdateBestPrices
    \/ CleanOldLevels

SpecQuote == InitBook /\ [][NextQuote]_vars

\* The same interface with the quantities that add and that delete a side.
PruneQtys == {0, MaxQty}

NextPrune ==
    \/ \E price \in BookPrices, volume \in PruneQtys, side \in Sides :
           Update(price, volume, side)
    \/ \E price \in BookTradePrices : UpdateCurrentPrice(price)
    \/ UpdateBestPrices
    \/ CleanOldLevels

SpecPrune == InitBook /\ [][NextPrune]_vars

(***************************************************************************)
(* OrderBookTrader.message_handler on a depthUpdate message                *)
(***************************************************************************)
\* The [price, quantity] entries of a depthUpdate: well formed ("ok"), with
\* a quantity float() rejects ("text": ValueError), or with no quantity at
\* all ("short": ask[1] raises IndexError).
DepthEntries ==
    [price : BookPrices, volume : {0, MaxQty}, form : {"ok"}]
        \cup [price : {1}, volume : {0}, form : {"text", "short"}]

DepthLists == {<<>>} \cup {<<e>> : e \in DepthEntries}
                    \cup {<<e, f>> : e, f \in DepthEntries}

DepthMessages == [a : DepthLists, b : DepthLists]

Malformed(msg) ==
    \E e \in Range(msg.a) \cup Range(msg.b) : e.form # "ok"

\* One for loop of the handler over the entries of a side.  ValueError and
\* TypeError are caught per entry and the loop continues; IndexError is
\* not, and leaves the loop for the handler's outer except.
RECURSIVE ApplyEntries(_, _, _, _)
ApplyEntries(levels, entries, side, variant) ==
    IF entries = <<>> THEN [levels |-> levels, raised |-> FALSE]
    ELSE LET e == Head(entries)
         IN  IF e.form = "short" THEN [levels |-> levels, raised |-> TRUE]
             ELSE IF e.form = "text"
                  THEN ApplyEntries(levels, Tail(entries), side, variant)
                  ELSE ApplyEntries(
                           IF variant = "futures"
                           THEN UpdateLevels(levels, e.price, e.volume, side)
                           ELSE UpdateLevelsSpot(levels, e.price, e.volume, side),
                           Tail(entries), side, variant)

\* message_handler on one depthUpdate, under orderbook_lock: the asks, then
\* the bids unless an exception has left the handler.
DepthUpdate(msg) ==
    /\ LET asks == ApplyEntries(price_levels, msg.a, "ask", book_variant)
           bids == ApplyEntries(asks.levels, msg.b, "bid", book_variant)
       IN  price_levels' = IF asks.raised THEN asks.levels ELSE bids.levels
    /\ book_call' = [price |-> 0, volume |-> 0,
                     side |-> IF Malformed(msg) THEN "depth_malformed"
                                                ELSE "depth"]
    /\ book_prev' = price_levels
    /\ UNCHANGED <<book_variant, current_price, best_bid, best_ask, fpVars,
                   connVars, storeVars, viewVars, analysisVars, raceVars>>

NextDepth == \E msg \in DepthMessages : DepthUpdate(msg)

SpecDepth == InitBook /\ [][NextDepth]_vars

(***************************************************************************)
(* Connection supervisor: heartbeat_check and handle_disconnect            *)
(***************************************************************************)
HeartbeatInterval == 5      \* self.heartbeat_interval

Min(a, b) == IF a < b THEN a ELSE b
Max(a, b) == IF a > b THEN a ELSE b

\* A slip: the doubled delay is not capped.
DoubledUncapped(delay) == delay * 2

\* min(self.reconnect_delay * 2, self.max_reconnect_delay)
Doubled(delay) == Min(delay * 2, MaxReconnectDelay)

\* start(): self.is_running = True
Start ==
    /\ heartbeat' = "on"
    /\ UNCHANGED hd_caller
    /\ ~is_running
    /\ is_running' = TRUE
    /\ last_conn' = "start"
    /\ UNCHANGED <<reconnect_delay, hd_pc, hd_depth, hd_read, now,
                   last_message_time, fails, tracking>>
    /\ UNCHANGED <<bookVars, storeVars, fpVars, viewVars, analysisVars,
                   raceVars>>

\* shutdown(): self.is_running = False
Shutdown ==
    /\ UNCHANGED <<hd_caller, heartbeat>>
    /\ is_running
    /\ is_running' = FALSE
    /\ last_conn' = "shutdown"
    /\ UNCHANGED <<reconnect_delay, hd_pc, hd_depth, hd_read, now,
                   last_message_time, fails, tracking>>
    /\ UNCHANGED <<bookVars, storeVars, fpVars, viewVars, analysisVars,
                   raceVars>>

\* One second passes.
Tick ==
    /\ UNCHANGED <<hd_caller, heartbeat>>
    /\ now < MaxClock
    /\ now' = now + 1
    /\ UNCHANGED <<is_running, reconnect_delay, hd_pc, hd_depth, hd_read,
                   last_message_time, fails, tracking, last_conn>>
    /\ UNCHANGED <<bookVars, storeVars, fpVars, viewVars, analysisVars,
                   raceVars>>

\* An inbound payload that is not an aggTrade: the handler returns after
\* its prologue.
OtherMessage ==
    /\ TouchConnection
    /\ UNCHANGED <<bookVars, storeVars, fpVars, viewVars, analysisVars,
                   raceVars>>

\* heartbeat_check finds the feed silent and calls handle_disconnect.
HeartbeatFires ==
    /\ hd_pc = "idle"
    /\ heartbeat = "on"
    /\ is_running
    /\ hd_caller' = "heartbeat"
    /\ UNCHANGED heartbeat
    /\ now - last_message_time > HeartbeatInterval
    /\ hd_pc' = "check"
    /\ last_conn' = "entered"
    /\ UNCHANGED <<is_running, reconnect_delay, hd_depth, hd_read, now,
                   last_message_time, fails, tracking>>
    /\ UNCHANGED <<bookVars, storeVars, fpVars, viewVars, analysisVars,
                   raceVars>>

\* The client's on_close callback calls handle_disconnect.
OnClose ==
    /\ hd_pc = "idle"
    /\ hd_caller' = "on_close"
    /\ UNCHANGED heartbeat
    /\ hd_pc' = "check"
    /\ last_conn' = "entered"
    /\ UNCHANGED <<is_running, reconnect_delay, hd_depth, hd_read, now,
                   last_message_time, fails, tracking>>
    /\ UNCHANGED <<bookVars, storeVars, fpVars, viewVars, analysisVars,
                   raceVars>>

\* if not self.is_running: return.  The recursive call is the last
\* statement of its caller, so the return ends the whole chain.
HdReturn ==
    /\ hd_caller' = "none"
    /\ UNCHANGED heartbeat
    /\ hd_pc = "check"
    /\ ~is_running
    /\ hd_pc' = "idle"
    /\ hd_depth' = 0
    /\ tracking' = FALSE
    /\ fails' = 0
    /\ last_conn' = "returned"
    /\ UNCHANGED <<is_running, reconnect_delay, hd_read, now,
                   last_message_time>>
    /\ UNCHANGED <<bookVars, storeVars, fpVars, viewVars, analysisVars,
                   raceVars>>

\* time.sleep(self.reconnect_delay), then the read of the delay that the
\* doubling starts from.  A run of attempts is followed from the moment it
\* reads the floor.
HdSleep ==
    /\ UNCHANGED <<hd_caller, heartbeat>>
    /\ hd_pc = "check"
    /\ is_running
    /\ hd_pc' = "write"
    /\ hd_read' = reconnect_delay
    /\ IF ~tracking /\ reconnect_delay = ReconnectFloor
       THEN tracking' = TRUE /\ fails' = 0
       ELSE UNCHANGED <<tracking, fails>>
    /\ last_conn' = "slept"
    /\ UNCHANGED <<is_running, reconnect_delay, hd_depth, now,
                   last_message_time>>
    /\ UNCHANGED <<bookVars, storeVars, fpVars, viewVars, analysisVars,
                   raceVars>>

\* self.reconnect_delay = min(self.reconnect_delay * 2, ...)
HdDouble ==
    /\ UNCHANGED <<hd_caller, heartbeat>>
    /\ hd_pc = "write"
    /\ reconnect_delay' = Doubled(hd_read)
    /\ hd_pc' = "connect"
    /\ last_conn' = "doubled"
    /\ UNCHANGED <<is_running, hd_depth, hd_read, now, last_message_time,
                   fails, tracking>>
    /\ UNCHANGED <<bookVars, storeVars, fpVars, viewVars, analysisVars,
                   raceVars>>

\* create_websocket_client and subscribe_data succeed.
HdConnected ==
    /\ hd_caller' = "none"
    /\ UNCHANGED heartbeat
    /\ hd_pc = "connect"
    /\ reconnect_delay' = ReconnectFloor
    /\ hd_pc' = "idle"
    /\ hd_depth' = 0
    /\ tracking' = FALSE
    /\ fails' = 0
    /\ last_conn' = "reconnected"
    /\ UNCHANGED <<is_running, hd_read, now, last_message_time>>
    /\ UNCHANGED <<bookVars, storeVars, fpVars, viewVars, analysisVars,
                   raceVars>>

\* create_websocket_client or subscribe_data raises: handle_disconnect
\* calls itself.
HdConnectFails ==
    /\ UNCHANGED <<hd_caller, heartbeat>>
    /\ hd_pc = "connect"
    /\ hd_depth < MaxDepth
    /\ hd_depth' = hd_depth + 1
    /\ hd_pc' = "check"
    /\ fails' = IF tracking THEN fails + 1 ELSE fails
    /\ last_conn' = "failed"
    /\ UNCHANGED <<is_running, reconnect_delay, hd_read, now,
                   last_message_time, tracking>>
    /\ UNCHANGED <<bookVars, storeVars, fpVars, viewVars, analysisVars,
                   raceVars>>

\* The attempt fails when the interpreter's recursion limit is reached
\* (sys.getrecursionlimit(), never raised by the program): the call of
\* handle_disconnect in the except block raises RecursionError, which no
\* frame of the chain catches.  The chain unwinds to its caller; when that
\* is heartbeat_check, which has no try, the heartbeat thread ends.
HdRecursionError ==
    /\ hd_pc = "connect"
    /\ hd_depth = MaxDepth
    /\ hd_pc' = "idle"
    /\ hd_depth' = 0
    /\ hd_caller' = "none"
    /\ heartbeat' = IF hd_caller = "heartbeat" THEN "dead" ELSE heartbeat
    /\ tracking' = FALSE
    /\ fails' = 0
    /\ last_conn' = "raised"
    /\ UNCHANGED <<is_running, reconnect_delay, hd_read, now,
                   last_message_time>>
    /\ UNCHANGED <<bookVars, fpVars, storeVars, viewVars, analysisVars,
                   raceVars>>

InitConn == BookIdle /\ FpIdle /\ ConnInit /\ RestInit

NextConn ==
    \/ Start
    \/ Shutdown
    \/ Tick
    \/ OtherMessage
    \/ Undecodable
    \/ HeartbeatFires
    \/ OnClose
    \/ HdReturn
    \/ HdSleep
    \/ HdDouble
    \/ HdConnected
    \/ HdConnectFails
    \/ HdRecursionError

SpecConn == InitConn /\ [][NextConn]_vars

(***************************************************************************)
(* handle_disconnect in two threads: the heartbeat thread and the thread   *)
(* of the client that calls on_close                                       *)
(***************************************************************************)
\* What these threads leave alone.
RaceFrame ==
    UNCHANGED <<hd_pc, hd_depth, hd_read, fails, tracking, last_conn,
                hd_caller, heartbeat, bookVars, fpVars, storeVars, viewVars,
                analysisVars>>

\* A client that delivers messages: subscribed, not stopped, connected.
Delivers(h) ==
    /\ handles[h].subscribed
    /\ ~handles[h].stopped
    /\ ~handles[h].closed

\* Where a thread is after handle_disconnect has returned: heartbeat_check
\* goes on to time.sleep(1), the callback is over.
Home(th) == IF th = "heartbeat" THEN "nap" ELSE "idle"
NapUntil(th) == IF th = "heartbeat" THEN now + 1 ELSE 0

\* start(): is_running = True, the heartbeat thread is started and
\* subscribe_data subscribes the client.
RaceStart ==
    /\ ~is_running
    /\ th_pc["heartbeat"] = "idle"
    /\ is_running' = TRUE
    /\ th_pc' = [th_pc EXCEPT !["heartbeat"] = "test"]
    /\ handles' = [handles EXCEPT ![umfclient].subscribed = TRUE]
    /\ UNCHANGED <<reconnect_delay, now, last_message_time, th_read, th_wake,
                   umfclient, reconnected_at>>
    /\ RaceFrame

\* A client calls on_message: the prologue of the handler runs.
RaceMessage(h) ==
    /\ Delivers(h)
    /\ TouchConnection
    /\ UNCHANGED <<raceVars, bookVars, fpVars, storeVars, viewVars,
                   analysisVars>>

\* heartbeat_check: the if of the loop body.  A silent feed calls
\* handle_disconnect, otherwise the thread goes to time.sleep(1).
HeartbeatTests ==
    /\ th_pc["heartbeat"] = "test"
    /\ is_running
    /\ IF now - last_message_time > HeartbeatInterval
       THEN /\ th_pc' = [th_pc EXCEPT !["heartbeat"] = "check"]
            /\ UNCHANGED th_wake
       ELSE /\ th_pc' = [th_pc EXCEPT !["heartbeat"] = "nap"]
            /\ th_wake' = [th_wake EXCEPT !["heartbeat"] = now + 1]
    /\ UNCHANGED <<is_running, reconnect_delay, now, last_message_time,
                   th_read, umfclient, handles, reconnected_at>>
    /\ RaceFrame

\* The clock when a sleep that lasts until wake is over.  The clock is
\* followed up to RaceClock and stays there.
ClockAfter(wake) == Min(Max(now, wake), RaceClock)

\* time.sleep(1) of heartbeat_check is over.
HeartbeatNapEnds ==
    /\ th_pc["heartbeat"] = "nap"
    /\ th_wake["heartbeat"] <= RaceClock
    /\ now' = ClockAfter(th_wake["heartbeat"])
    /\ th_wake' = [th_wake EXCEPT !["heartbeat"] = 0]
    /\ th_pc' = [th_pc EXCEPT !["heartbeat"] = "test"]
    /\ UNCHANGED <<is_running, reconnect_delay, last_message_time, th_read,
                   umfclient, handles, reconnected_at>>
    /\ RaceFrame

\* The connection of a client closes and its thread calls on_close, which
\* is handle_disconnect.
OnCloseArrives(h) ==
    /\ th_pc["on_close"] = "idle"
    /\ ~handles[h].closed
    /\ handles' = [handles EXCEPT ![h].closed = TRUE]
    /\ th_pc' = [th_pc EXCEPT !["on_close"] = "check"]
    /\ UNCHANGED <<is_running, reconnect_delay, now, last_message_time,
                   th_read, th_wake, umfclient, reconnected_at>>
    /\ RaceFrame

\* if not self.is_running: return; otherwise time.sleep(reconnect_delay)
\* begins.
RaceEnters(th) ==
    /\ th_pc[th] = "check"
    /\ IF is_running
       THEN /\ th_pc' = [th_pc EXCEPT ![th] = "sleep"]
            /\ th_wake' = [th_wake EXCEPT
                              ![th] = Min(now + reconnect_delay, RaceClock)]
       ELSE /\ th_pc' = [th_pc EXCEPT ![th] = Home(th)]
            /\ th_wake' = [th_wake EXCEPT ![th] = NapUntil(th)]
    /\ UNCHANGED <<is_running, reconnect_delay, now, last_message_time,
                   th_read, umfclient, handles, reconnected_at>>
    /\ RaceFrame

\* The sleep is over, and the thread reads self.reconnect_delay for the
\* doubling.
RaceSleepEnds(th) ==
    /\ th_pc[th] = "sleep"
    /\ now' = ClockAfter(th_wake[th])
    /\ th_read' = [th_read EXCEPT ![th] = reconnect_delay]
    /\ th_wake' = [th_wake EXCEPT ![th] = 0]
    /\ th_pc' = [th_pc EXCEPT ![th] = "write"]
    /\ UNCHANGED <<is_running, reconnect_delay, last_message_time, umfclient,
                   handles, reconnected_at>>
    /\ RaceFrame

\* self.reconnect_delay = min(<the value read> * 2, max_reconnect_delay)
RaceDoubles(th) ==
    /\ th_pc[th] = "write"
    /\ reconnect_delay' = Doubled(th_read[th])
    /\ th_read' = [th_read EXCEPT ![th] = 0]
    /\ th_pc' = [th_pc EXCEPT ![th] = "stop"]
    /\ UNCHANGED <<is_running, now, last_message_time, th_wake,
                   umfclient, handles, reconnected_at>>
    /\ RaceFrame

\* create_websocket_client: self.umfclient.stop() on the current client.
RaceStopsClient(th) ==
    /\ th_pc[th] = "stop"
    /\ handles' = [handles EXCEPT ![umfclient].stopped = TRUE]
    /\ th_pc' = [th_pc EXCEPT ![th] = "create"]
    /\ UNCHANGED <<is_running, reconnect_delay, now, last_message_time,
                   th_read, th_wake, umfclient, reconnected_at>>
    /\ RaceFrame

\* create_websocket_client: self.umfclient = <a new client>.
RaceCreatesClient(th) ==
    /\ th_pc[th] = "create"
    /\ Len(handles) < MaxHandles
    /\ handles' = Append(handles, NewClient)
    /\ umfclient' = Len(handles) + 1
    /\ th_pc' = [th_pc EXCEPT ![th] = "subscribe"]
    /\ UNCHANGED <<is_running, reconnect_delay, now, last_message_time,
                   th_read, th_wake, reconnected_at>>
    /\ RaceFrame

\* The constructor of the client raises: the except block calls
\* handle_disconnect again.
RaceCreateFails(th) ==
    /\ th_pc[th] = "create"
    /\ th_pc' = [th_pc EXCEPT ![th] = "check"]
    /\ UNCHANGED <<is_running, reconnect_delay, now, last_message_time,
                   th_read, th_wake, umfclient, handles, reconnected_at>>
    /\ RaceFrame

\* subscribe_data on self.umfclient as it is now, then reconnect_delay = 1
\* and the return.  Subscribing a client that another thread has stopped
\* raises, and the except block calls handle_disconnect again.
RaceSubscribes(th) ==
    /\ th_pc[th] = "subscribe"
    /\ IF handles[umfclient].stopped
       THEN /\ th_pc' = [th_pc EXCEPT ![th] = "check"]
            /\ UNCHANGED <<reconnect_delay, handles, reconnected_at, th_wake>>
       ELSE /\ handles' = [handles EXCEPT ![umfclient].subscribed = TRUE]
            /\ reconnect_delay' = ReconnectFloor
            /\ reconnected_at' = now
            /\ th_pc' = [th_pc EXCEPT ![th] = Home(th)]
            /\ th_wake' = [th_wake EXCEPT ![th] = NapUntil(th)]
    /\ UNCHANGED <<is_running, now, last_message_time, th_read, umfclient>>
    /\ RaceFrame

InitRace == BookIdle /\ FpIdle /\ ConnInit /\ RestInit

\* The heartbeat thread, the on_close callback and the message handler.
NextRace ==
    \/ RaceStart
    \/ \E h \in 1..MaxHandles : h \in DOMAIN handles /\ RaceMessage(h)
    \/ HeartbeatTests
    \/ HeartbeatNapEnds
    \/ \E h \in 1..MaxHandles : h \in DOMAIN handles /\ OnCloseArrives(h)
    \/ \E th \in Threads : RaceEnters(th)
    \/ \E th \in Threads : RaceSleepEnds(th)
    \/ \E th \in Threads : RaceDoubles(th)
    \/ \E th \in Threads : RaceStopsClient(th)
    \/ \E th \in Threads : RaceCreatesClient(th)
    \/ \E th \in Threads : RaceCreateFails(th)
    \/ \E th \in Threads : RaceSubscribes(th)

SpecRace == InitRace /\ [][NextRace]_vars

\* The heartbeat thread alone with the message handler: no client ever
\* calls on_close and no attempt fails.
NextBeat ==
    \/ RaceStart
    \/ \E h \in 1..MaxHandles : h \in DOMAIN handles /\ RaceMessage(h)
    \/ HeartbeatTests
    \/ HeartbeatNapEnds
    \/ RaceEnters("heartbeat")
    \/ RaceSleepEnds("heartbeat")
    \/ RaceDoubles("heartbeat")
    \/ RaceStopsClient("heartbeat")
    \/ RaceCreatesClient("heartbeat")
    \/ RaceSubscribes("heartbeat")

SpecBeat == InitRace /\ [][NextBeat]_vars

(***************************************************************************)
(* footprint_storage_loop step by step, and OrderFlowTrader.shutdown       *)
(***************************************************************************)
\* The trades of the runs that are shut down.
StopTrades == {t \in Trades : t.p = 101 * PriceScale /\ t.q = 1 /\ ~t.m}

\* while self._storage_running: with self.storage_lock: the queue is not
\* empty and its first record is popped.  (A round that finds the queue
\* empty changes nothing.)
StorageTakes ==
    /\ storage_pc = "sleep"
    /\ storage_running
    /\ storage_lock = "free"
    /\ storage_queue # <<>>
    /\ storage_lock' = "storage"
    /\ storage_pc' = "write"
    /\ storage_taken' = <<Head(storage_queue)>>
    /\ storage_queue' = Tail(storage_queue)
    /\ UNCHANGED <<storage_running, shutdown_pc, history_table>>
    /\ UNCHANGED <<heap, footprint, current_minute, orderflow_history,
                   ingest_pc, pending, last_kind, last_msg, last_T, ntrades,
                   accepted_volume, loaded_volume, nbad, evictions>>
    /\ UNCHANGED <<bookVars, connVars, viewVars, analysisVars, raceVars>>

\* self.history_table.insert(data_to_save), still inside the with block;
\* then the lock is released and the thread sleeps.
StorageWrites ==
    /\ storage_pc = "write"
    /\ history_table' =
           Append(history_table, StoredDoc(heap, storage_taken[1]))
    /\ storage_taken' = <<>>
    /\ storage_lock' = "free"
    /\ storage_pc' = "sleep"
    /\ heap' = Collect(heap, footprint, orderflow_history, storage_queue)
    /\ UNCHANGED <<storage_running, shutdown_pc, storage_queue>>
    /\ UNCHANGED <<footprint, current_minute, orderflow_history, ingest_pc,
                   pending, last_kind, last_msg, last_T, ntrades,
                   accepted_volume, loaded_volume, nbad, evictions>>
    /\ UNCHANGED <<bookVars, connVars, viewVars, analysisVars, raceVars>>

\* The loop test finds _storage_running False: the thread ends.
StorageExits ==
    /\ storage_pc = "sleep"
    /\ ~storage_running
    /\ storage_pc' = "exited"
    /\ UNCHANGED <<storage_lock, storage_running, storage_taken,
                   shutdown_pc, storage_queue, history_table>>
    /\ UNCHANGED <<heap, footprint, current_minute, orderflow_history,
                   ingest_pc, pending, last_kind, last_msg, last_T, ntrades,
                   accepted_volume, loaded_volume, nbad, evictions>>
    /\ UNCHANGED <<bookVars, connVars, viewVars, analysisVars, raceVars>>

\* shutdown(): self.is_running = False; self._storage_running = False
ShutdownBegins ==
    /\ shutdown_pc = "none"
    /\ is_running
    /\ is_running' = FALSE
    /\ storage_running' = FALSE
    /\ shutdown_pc' = "join"
    /\ last_conn' = "shutdown"
    /\ UNCHANGED <<reconnect_delay, hd_pc, hd_depth, hd_read, now,
                   last_message_time, fails, tracking, hd_caller, heartbeat>>
    /\ UNCHANGED <<storage_lock, storage_pc, storage_taken>>
    /\ UNCHANGED <<bookVars, fpVars, viewVars, analysisVars, raceVars>>

\* self.storage_thread.join(timeout=2) returns: the thread has ended, or
\* two seconds have passed while it was inside an insert.
ShutdownJoins ==
    /\ shutdown_pc = "join"
    /\ storage_pc \in {"exited", "write"}
    /\ shutdown_pc' = "flush"
    /\ UNCHANGED <<storage_lock, storage_pc, storage_running, storage_taken>>
    /\ UNCHANGED <<bookVars, fpVars, connVars, viewVars, analysisVars,
                   raceVars>>

\* with self.storage_lock: every record of the queue is inserted.  The
\* records stay in the queue.
ShutdownFlushes ==
    /\ shutdown_pc = "flush"
    /\ storage_lock = "free"
    /\ history_table' = history_table \o
           [i \in DOMAIN storage_queue |-> StoredDoc(heap, storage_queue[i])]
    /\ shutdown_pc' = "stop"
    /\ UNCHANGED <<storage_lock, storage_pc, storage_running, storage_taken,
                   storage_queue>>
    /\ UNCHANGED <<heap, footprint, current_minute, orderflow_history,
                   ingest_pc, pending, last_kind, last_msg, last_T, ntrades,
                   accepted_volume, loaded_volume, nbad, evictions>>
    /\ UNCHANGED <<bookVars, connVars, viewVars, analysisVars, raceVars>>

\* self.display.stop_refresh_thread(); self.umfclient.stop(); the old
\* documents are removed and the database is closed: shutdown returns.
ShutdownStops ==
    /\ shutdown_pc = "stop"
    /\ shutdown_pc' = "done"
    /\ UNCHANGED <<storage_lock, storage_pc, storage_running, storage_taken>>
    /\ UNCHANGED <<bookVars, fpVars, connVars, viewVars, analysisVars,
                   raceVars>>

InitStop == BookIdle /\ FpIdle /\ ConnInit /\ RestInit

NextStop ==
    \/ Start
    \/ \E t \in StopTrades : FirstTrade(t)
    \/ \E t \in StopTrades : SameWindow(t)
    \/ \E t \in StopTrades : RolloverBegin(t)
    \/ RolloverFinish
    \/ StorageTakes
    \/ StorageWrites
    \/ StorageExits
    \/ ShutdownBegins
    \/ ShutdownJoins
    \/ ShutdownFlushes
    \/ ShutdownStops

SpecStop == InitStop /\ [][NextStop]_vars

(***************************************************************************)
(* The storage loop instruction by instruction, and shutdown called twice  *)
(***************************************************************************)
\* while self._storage_running: the test finds the flag set and the thread
\* goes on to the with statement.
StorageTests ==
    /\ storage_pc = "sleep"
    /\ storage_running
    /\ storage_pc' = "lock"
    /\ UNCHANGED <<storage_lock, storage_running, storage_taken, shutdown_pc>>
    /\ UNCHANGED <<bookVars, fpVars, connVars, viewVars, analysisVars,
                   raceVars>>

\* with self.storage_lock: if self.storage_queue: the first record is
\* popped.  With an empty queue the lock is released and the thread sleeps.
StorageLocks ==
    /\ storage_pc = "lock"
    /\ storage_lock = "free"
    /\ IF storage_queue = <<>>
       THEN /\ storage_pc' = "sleep"
            /\ UNCHANGED <<storage_lock, storage_taken, storage_queue>>
       ELSE /\ storage_pc' = "write"
            /\ storage_lock' = "storage"
            /\ storage_taken' = <<Head(storage_queue)>>
            /\ storage_queue' = Tail(storage_queue)
    /\ UNCHANGED <<storage_running, shutdown_pc, history_table>>
    /\ UNCHANGED <<heap, footprint, current_minute, orderflow_history,
                   ingest_pc, pending, last_kind, last_msg, last_T, ntrades,
                   accepted_volume, loaded_volume, nbad, evictions>>
    /\ UNCHANGED <<bookVars, connVars, viewVars, analysisVars, raceVars>>

\* self.history_table.insert(data_to_save) while the database is open.
StorageWritesOpen == ~ShutdownReturned /\ StorageWrites

\* self.history_table.insert(data_to_save) after footprint_db.close(): the
\* insert raises, the exception is printed and the popped record is gone.
StorageWritesClosed ==
    /\ storage_pc = "write"
    /\ ShutdownReturned
    /\ storage_taken' = <<>>
    /\ storage_lock' = "free"
    /\ storage_pc' = "sleep"
    /\ heap' = Collect(heap, footprint, orderflow_history, storage_queue)
    /\ UNCHANGED <<storage_running, shutdown_pc, storage_queue,
                   history_table>>
    /\ UNCHANGED <<footprint, current_minute, orderflow_history, ingest_pc,
                   pending, last_kind, last_msg, last_T, ntrades,
                   accepted_volume, loaded_volume, nbad, evictions>>
    /\ UNCHANGED <<bookVars, connVars, viewVars, analysisVars, raceVars>>

\* self.storage_thread.join(timeout=2) returns after two seconds in which
\* the thread, past the loop test, has not yet entered the with block.
ShutdownJoinTimesOut ==
    /\ shutdown_pc = "join"
    /\ storage_pc = "lock"
    /\ shutdown_pc' = "flush"
    /\ UNCHANGED <<storage_lock, storage_pc, storage_running, storage_taken>>
    /\ UNCHANGED <<bookVars, fpVars, connVars, viewVars, analysisVars,
                   raceVars>>

\* except KeyboardInterrupt: trader.shutdown(), after the finally clause of
\* start() has already run shutdown(): the flags are cleared again and the
\* join returns, the thread ended or not.
ShutdownAgain ==
    /\ shutdown_pc = "done"
    /\ shutdown_pc' = "flush2"
    /\ UNCHANGED <<storage_lock, storage_pc, storage_running, storage_taken>>
    /\ UNCHANGED <<bookVars, fpVars, connVars, viewVars, analysisVars,
                   raceVars>>

\* The second flush: every record of the queue is inserted again, each
\* insert raises on the closed database and is printed; the second
\* shutdown then runs to its end.
ShutdownFlushesAgain ==
    /\ shutdown_pc = "flush2"
    /\ storage_lock = "free"
    /\ shutdown_pc' = "done2"
    /\ UNCHANGED <<storage_lock, storage_pc, storage_running, storage_taken>>
    /\ UNCHANGED <<bookVars, fpVars, connVars, viewVars, analysisVars,
                   raceVars>>

\* A run of distinct windows that is shut down, once or twice, with the
\* storage thread at any instruction.
NextFlush ==
    \/ Start
    \/ \E t \in StopTrades : FirstTrade(t)
    \/ \E t \in StopTrades : RolloverBegin(t)
    \/ RolloverFinish
    \/ StorageTests
    \/ StorageLocks
    \/ StorageWritesOpen
    \/ StorageWritesClosed
    \/ StorageExits
    \/ ShutdownBegins
    \/ ShutdownJoins
    \/ ShutdownJoinTimesOut
    \/ ShutdownFlushes
    \/ ShutdownStops
    \/ ShutdownAgain
    \/ ShutdownFlushesAgain

SpecFlush == InitStop /\ [][NextFlush]_vars

\* The message handler and the storage thread of a trader that starts with
\* the history it loaded.
NextArchive ==
    \/ \E t \in StopTrades : FirstTrade(t)
    \/ \E t \in StopTrades : SameWindow(t)
    \/ \E t \in StopTrades : RolloverBegin(t)
    \/ RolloverFinish
    \/ StorageTakes
    \/ StorageWrites

SpecArchive == Init /\ [][NextArchive]_vars

(***************************************************************************)
(* Detectors of OrderFlowTrader: inputs                                    *)
(***************************************************************************)
\* The order_flows dicts over the price levels P with volumes from V: every
\* level that is present has traded on at least one side.
FlowsOver(P, V) ==
    UNION {[S -> {fl \in [buy_volume : V, sell_volume : V, order_count : {1}] :
                    fl.buy_volume + fl.sell_volume > 0}] : S \in SUBSET P}

RECURSIVE SumSide(_, _, _)
SumSide(flows, levels, side) ==
    IF levels = {} THEN 0
    ELSE LET l == CHOOSE x \in levels : TRUE
         IN  flows[l][side] + SumSide(flows, levels \ {l}, side)

\* A window that has these order_flows: it opened at price level open and
\* its last trade was at price level close.
WindowOf(flows, open, close) ==
    LET lv   == DOMAIN flows
        buy  == SumSide(flows, lv, "buy_volume")
        sell == SumSide(flows, lv, "sell_volume")
        hi   == CHOOSE x \in lv : \A y \in lv : y <= x
        lo   == CHOOSE x \in lv : \A y \in lv : x <= y
    IN  IF lv = {} THEN NewMinuteFootprint
        ELSE [time |-> StartupNowMs + FiveMinutesMs,
              open |-> open * PriceScale, high |-> hi * PriceScale,
              low |-> lo * PriceScale, close |-> close * PriceScale,
              total_volume |-> buy + sell, buy_volume |-> buy,
              sell_volume |-> sell, delta |-> buy - sell,
              order_flows |-> flows]

\* A trader whose live window is w and whose history holds the windows
\* hist, oldest first.
FpGiven(w, hist) ==
    /\ history_table = <<>>
    /\ heap = [i \in 1..(Len(hist) + 1) |-> IF i = 1 THEN w ELSE hist[i - 1]]
    /\ footprint = 1
    /\ orderflow_history = [i \in 1..Len(hist) |-> i + 1]
    /\ loaded_volume = 0
    /\ current_minute = IF w.time = None THEN None ELSE GetMinuteStr(w.time)
    /\ storage_queue = <<>>
    /\ ingest_pc = "idle"
    /\ pending = NoTrade
    /\ last_kind = "none"
    /\ last_T = None
    /\ ntrades = 0
    /\ accepted_volume = 0
    /\ evictions = 0
    /\ last_msg = NoMessage
    /\ nbad = 0

(***************************************************************************)
(* OrderFlowTrader.check_consecutive_imbalances                            *)
(***************************************************************************)
\* sorted(...) of a set of integers.
RECURSIVE SortAsc(_)
SortAsc(S) ==
    IF S = {} THEN <<>>
    ELSE LET m == CHOOSE x \in S : \A y \in S : x <= y
         IN  <<m>> \o SortAsc(S \ {m})

\* A slip: a side that is exactly three times the other counts too.
ImbalanceDirectionAtLeast(b, s) ==
    IF b >= 3 * s /\ s > 0 THEN "long"
    ELSE IF s >= 3 * b /\ b > 0 THEN "short"
    ELSE "none"

\* imbalance_direction(b, s)
ImbalanceDirection(b, s) ==
    IF b > 3 * s /\ s > 0 THEN "long"
    ELSE IF s > 3 * b /\ b > 0 THEN "short"
    ELSE "none"

\* The scan over the sorted price levels: three neighbours of the sorted
\* list that are one apart and have the same direction.
CheckConsecutiveImbalances(w) ==
    LET levels == SortAsc(DOMAIN w.order_flows)
        Dir(p) == ImbalanceDirection(w.order_flows[p].buy_volume,
                                     w.order_flows[p].sell_volume)
    IN  \E i \in 1..(Len(levels) - 2) :
            LET p1 == levels[i]
                p2 == levels[i + 1]
                p3 == levels[i + 2]
            IN  /\ p2 = p1 + 1
                /\ p3 = p2 + 1
                /\ Dir(p1) # "none"
                /\ Dir(p1) = Dir(p2)
                /\ Dir(p2) = Dir(p3)

\* One call self.check_consecutive_imbalances().
CheckImbalances ==
    /\ imbalance_found' = IF CheckConsecutiveImbalances(heap[footprint])
                          THEN "run" ELSE "none"
    /\ UNCHANGED <<support_resistance_levels, sr_returned, reversal_signal,
                   bookVars, fpVars, connVars, storeVars, viewVars, raceVars>>

ImbalancePrices  == {100, 101, 102, 103}
ImbalanceVolumes == {0, 1, 3, 4}

InitImbalance ==
    /\ BookIdle /\ ConnInit /\ RestInit
    /\ \E flows \in FlowsOver(ImbalancePrices, ImbalanceVolumes) :
           FpGiven(WindowOf(flows, 100, 100), <<>>)

NextImbalance == CheckImbalances

SpecImbalance == InitImbalance /\ [][NextImbalance]_vars

(***************************************************************************)
(* OrderFlowTrader.analyze_support_resistance                              *)
(*                                                                         *)
(* The source keeps, for each significant level, buy_ratio = buy / (buy +  *)
(* sell) and weights it by the level's volume, which is buy + sell again:  *)
(* the product is the level's buy volume, and the model carries that.  A   *)
(* strength, the quotient merged_volume / total_volume, is carried as the  *)
(* pair of its numerator and denominator.                                  *)
(***************************************************************************)
SrShareDen   == 10   \* self.sr_volume_threshold = 0.1
SrPriceRange == 5    \* self.sr_price_range

\* The keys of price_volumes.
BucketPrices(hist) == UNION {DOMAIN hist[i].order_flows : i \in DOMAIN hist}

\* The sum over the history of one side's volume at one price.
RECURSIVE SumBucket(_, _, _)
SumBucket(hist, price, side) ==
    IF hist = <<>> THEN 0
    ELSE (IF price \in DOMAIN Head(hist).order_flows
          THEN Head(hist).order_flows[price][side] ELSE 0)
         + SumBucket(Tail(hist), price, side)

\* price_volumes[price]
BucketVolume(hist, price) ==
    SumBucket(hist, price, "buy_volume") + SumBucket(hist, price, "sell_volume")

RECURSIVE SumBuckets(_, _)
SumBuckets(hist, prices) ==
    IF prices = {} THEN 0
    ELSE LET p == CHOOSE x \in prices : TRUE
         IN  BucketVolume(hist, p) + SumBuckets(hist, prices \ {p})

\* total_volume
TotalVolume(hist) == SumBuckets(hist, BucketPrices(hist))

\* A slip: a bucket with exactly the threshold volume is left out.
IsSignificantAbove(hist, price) ==
    BucketVolume(hist, price) * SrShareDen > TotalVolume(hist)

\* volume >= total_volume * self.sr_volume_threshold
IsSignificant(hist, price) ==
    BucketVolume(hist, price) * SrShareDen >= TotalVolume(hist)

\* significant_levels after significant_levels.sort(key = price).
SignificantLevels(hist) ==
    LET sorted == SortAsc({p \in BucketPrices(hist) : IsSignificant(hist, p)})
    IN  [k \in DOMAIN sorted |->
            [price  |-> sorted[k],
             volume |-> BucketVolume(hist, sorted[k]),
             buy    |-> SumBucket(hist, sorted[k], "buy_volume")]]

\* A slip: a level joins the zone when it is within range of the level
\* before it.
WithinRangeOfPrevious(sig, i, j) ==
    sig[j].price - sig[j - 1].price <= SrPriceRange

\* The test of the inner while loop: level j joins the zone of level i.
WithinRange(sig, i, j) == sig[j].price - sig[i].price <= SrPriceRange

RECURSIVE SumField(_, _, _, _)
SumField(sig, from, to, field) ==
    IF from > to THEN 0
    ELSE sig[from][field] + SumField(sig, from + 1, to, field)

\* A slip: a zone whose buy and sell volumes are equal is support.
ZoneTypeTieSupport(merged_buy, merged_volume) ==
    IF 2 * merged_buy >= merged_volume THEN "support" ELSE "resistance"

\* avg_buy_ratio > 0.5
ZoneType(merged_buy, merged_volume) ==
    IF 2 * merged_buy > merged_volume THEN "support" ELSE "resistance"

\* The outer while loop from index i on: j runs over the levels after i
\* as long as they are within range, the zone is appended, and i = j.
RECURSIVE MergeFrom(_, _, _)
MergeFrom(sig, i, total) ==
    IF i > Len(sig) THEN <<>>
    ELSE LET joined == {k \in (i + 1)..Len(sig) :
                           \A m \in (i + 1)..k : WithinRange(sig, i, m)}
             j      == i + 1 + Cardinality(joined)
             merged_volume == SumField(sig, i, j - 1, "volume")
             merged_buy    == SumField(sig, i, j - 1, "buy")
         IN  <<[price    |-> sig[i].price,
                volume   |-> merged_volume,
                type     |-> ZoneType(merged_buy, merged_volume),
                strength |-> [num |-> merged_volume, den |-> total]]>>
             \o MergeFrom(sig, j, total)

\* merged_levels
MergedLevels(hist) == MergeFrom(SignificantLevels(hist), 1, TotalVolume(hist))

\* The windows of the history, oldest first.
HistoryWindows == [i \in DOMAIN orderflow_history |-> heap[orderflow_history[i]]]

\* avg_buy_ratio = merged_buy_ratio / merged_volume divides by zero: a zone
\* whose levels have no volume.  (Such levels are significant only when
\* total_volume is zero, the divisor of the zone's strength.)
DividesByZero(hist) ==
    \E k \in DOMAIN MergedLevels(hist) : MergedLevels(hist)[k].volume = 0

\* One call self.analyze_support_resistance(): with an empty history it
\* returns [] and leaves self.support_resistance_levels as it is; when a
\* division raises ZeroDivisionError the call ends without a result and
\* without the assignment.
AnalyzeSupportResistance ==
    /\ ~sr_returned.called
    /\ IF orderflow_history = <<>>
       THEN /\ sr_returned' = [called |-> TRUE, value |-> <<>>,
                               raised |-> FALSE]
            /\ UNCHANGED support_resistance_levels
       ELSE IF DividesByZero(HistoryWindows)
       THEN /\ sr_returned' = [called |-> TRUE, value |-> <<>>,
                               raised |-> TRUE]
            /\ UNCHANGED support_resistance_levels
       ELSE /\ sr_returned' = [called |-> TRUE,
                               value |-> MergedLevels(HistoryWindows),
                               raised |-> FALSE]
            /\ support_resistance_levels' = MergedLevels(HistoryWindows)
    /\ UNCHANGED <<reversal_signal, imbalance_found, bookVars, fpVars,
                   connVars, storeVars, viewVars, raceVars>>

SrPrices  == {100, 105, 107, 113}
SrVolumes == {0, 1, 12}

\* Archived windows: a window is archived after at least one trade.
SrWindows ==
    {WindowOf(flows, 100, 100) :
        flows \in FlowsOver(SrPrices, SrVolumes) \ {<<>>}}

\* Windows that precede the newest one in the histories examined.
SrOlderWindows ==
    {WindowOf(DictPut(<<>>, 100, [NewFlow EXCEPT !.buy_volume = 1,
                                                 !.order_count = 1]),
              100, 100),
     WindowOf(DictPut(DictPut(<<>>, 105,
                              [NewFlow EXCEPT !.sell_volume = 12,
                                              !.order_count = 1]),
                      107, [NewFlow EXCEPT !.buy_volume = 1,
                                           !.sell_volume = 1,
                                           !.order_count = 1]),
              105, 107)}

SrHistories ==
    {<<>>} \cup {<<w>> : w \in SrWindows}
           \cup {<<o, w>> : o \in SrOlderWindows, w \in SrWindows}

InitLevels ==
    /\ BookIdle /\ ConnInit /\ RestInit
    /\ \E hist \in SrHistories : FpGiven(NewMinuteFootprint, hist)

NextLevels == AnalyzeSupportResistance

SpecLevels == InitLevels /\ [][NextLevels]_vars

\* Trades as the handler accepts them, a quantity of zero included:
\* quantity = float(message.get('q', 0)).
ZeroTrades == [T : TradeTimes, p : {100 * PriceScale, 101 * PriceScale},
               q : {0, 1}, m : BOOLEAN, has : {AllKeys}]

\* The handler builds the history, and the analysis is called once on it.
NextZero ==
    \/ \E t \in ZeroTrades : FirstTrade(t)
    \/ \E t \in ZeroTrades : SameWindow(t)
    \/ \E t \in ZeroTrades : RolloverBegin(t)
    \/ RolloverFinish
    \/ AnalyzeSupportResistance

SpecZero == Init /\ [][NextZero]_vars

(***************************************************************************)
(* OrderFlowTrader.check_reversal_signals                                  *)
(***************************************************************************)
ReversalThreshold == 2   \* self.reversal_threshold = 2.0
Proximity == 5           \* if price_diff <= 5

Abs(x) == IF x < 0 THEN -x ELSE x

\* return None
NoSignal == [signal |-> "none", level_price |-> None]

\* The body of the for loop for one level: the signal it returns, or none
\* when the loop goes on to the next level.  The window's prices are in
\* units of 1 / PriceScale dollars, the level's price is in dollars.
SignalAt(w, level) ==
    LET price_diff   == Abs(w.close - level.price * PriceScale)
        price_change == w.close - w.open
    IN  IF price_diff <= Proximity * PriceScale
        THEN IF level.type = "resistance" /\ price_change < 0
             THEN IF /\ w.sell_volume > 0
                     /\ w.buy_volume > ReversalThreshold * w.sell_volume
                  THEN [signal |-> "BUY", level_price |-> level.price]
                  ELSE NoSignal
             ELSE IF level.type = "support" /\ price_change > 0
                  THEN IF /\ w.buy_volume > 0
                          /\ w.sell_volume > ReversalThreshold * w.buy_volume
                       THEN [signal |-> "SELL", level_price |-> level.price]
                       ELSE NoSignal
                  ELSE NoSignal
        ELSE NoSignal

\* A slip: the scan ends at the first level near the close, whether it
\* gives a signal or not.
RECURSIVE ScanLevelsUntilNear(_, _)
ScanLevelsUntilNear(w, levels) ==
    IF levels = <<>> THEN NoSignal
    ELSE IF Abs(w.close - Head(levels).price * PriceScale)
                <= Proximity * PriceScale
         THEN SignalAt(w, Head(levels))
         ELSE ScanLevelsUntilNear(w, Tail(levels))

\* for level in self.support_resistance_levels: the first signal returned.
RECURSIVE ScanLevels(_, _)
ScanLevels(w, levels) ==
    IF levels = <<>> THEN NoSignal
    ELSE IF SignalAt(w, Head(levels)) # NoSignal
         THEN SignalAt(w, Head(levels))
         ELSE ScanLevels(w, Tail(levels))

\* One call self.check_reversal_signals().
CheckReversalSignals ==
    /\ reversal_signal' =
           IF \/ support_resistance_levels = <<>>
              \/ heap[footprint].close = None
              \/ heap[footprint].close = 0
           THEN NoSignal
           ELSE ScanLevels(heap[footprint], support_resistance_levels)
    /\ UNCHANGED <<support_resistance_levels, sr_returned, imbalance_found,
                   bookVars, fpVars, connVars, storeVars, viewVars, raceVars>>

\* Live windows: the first trade, a buy of one lot, was at price level
\* open, the other trades at price level close.
LiveWindow(open, close, buy, sell) ==
    LET first == [NewFlow EXCEPT !.buy_volume = 1, !.order_count = 1]
        rest  == [buy_volume |-> buy - 1, sell_volume |-> sell,
                  order_count |-> 1]
        all   == [buy_volume |-> buy, sell_volume |-> sell, order_count |-> 2]
    IN  IF open = close
        THEN WindowOf(DictPut(<<>>, close, all), open, close)
        ELSE WindowOf(DictPut(DictPut(<<>>, open, first), close, rest),
                      open, close)

ReversalCloses  == {104, 110}
ReversalVolumes == {<<5, 2>>, <<4, 2>>, <<2, 5>>, <<2, 4>>, <<1, 0>>}

ReversalWindows ==
    {NewMinuteFootprint} \cup
    {LiveWindow(c + d, c, v[1], v[2]) :
        c \in ReversalCloses, d \in {-1, 0, 1}, v \in ReversalVolumes}

ReversalHistories ==
    {<<>>} \cup {<<WindowOf(flows, 100, 100)>> :
                    flows \in FlowsOver(SrPrices, {0, 12}) \ {<<>>}}

InitReversal ==
    /\ BookIdle /\ ConnInit /\ RestInit
    /\ \E hist \in ReversalHistories, w \in ReversalWindows : FpGiven(w, hist)

NextReversal ==
    \/ AnalyzeSupportResistance
    \/ CheckReversalSignals

SpecReversal == InitReversal /\ [][NextReversal]_vars

(***************************************************************************)
(* FootprintDisplay: the left / right keys and get_display_data            *)
(***************************************************************************)

\* @self.kb.add('left'): one step back in the history.  The handler of the
\* key runs in the thread of the user interface and takes no lock.
KeyLeft ==
    /\ IF ~is_viewing_history
       THEN /\ history_index' = -1
            /\ is_viewing_history' = TRUE
       ELSE /\ history_index' =
                   Max(-Len(orderflow_history), history_index - 1)
            /\ is_viewing_history' = is_viewing_history
    /\ UNCHANGED <<shown, shown_value, bookVars, fpVars, connVars, storeVars,
                   analysisVars, raceVars>>

\* @self.kb.add('right'): one step forward, or back to the live window.
KeyRight ==
    /\ is_viewing_history
    /\ IF history_index < -1
       THEN /\ history_index' = history_index + 1
            /\ is_viewing_history' = is_viewing_history
       ELSE /\ is_viewing_history' = FALSE
            /\ history_index' = NoIndex
    /\ UNCHANGED <<shown, shown_value, bookVars, fpVars, connVars, storeVars,
                   analysisVars, raceVars>>

\* What get_display_data returns: an entry of the history, or the live
\* window.  A Python index -k of a list of length n is position n - k + 1.
DisplayData ==
    IF /\ is_viewing_history
       /\ history_index # NoIndex
       /\ -Len(orderflow_history) <= history_index
       /\ history_index < 0
    THEN orderflow_history[Len(orderflow_history) + history_index + 1]
    ELSE footprint

\* display_data = self.get_display_data(), called by update_display at the
\* end of the message handler: the caller is given the dict itself.
GetDisplayData ==
    /\ ingest_pc = "idle"
    /\ shown' = DisplayData
    /\ shown_value' = heap[DisplayData]
    /\ UNCHANGED <<is_viewing_history, history_index, bookVars, fpVars,
                   connVars, storeVars, analysisVars, raceVars>>

InitView == BookIdle /\ FpInit /\ ConnInit /\ RestInit

\* The message handler, the keys and the accessor of the display.
NextView ==
    \/ \E t \in StopTrades : FirstTrade(t)
    \/ \E t \in StopTrades : SameWindow(t)
    \/ \E t \in StopTrades : RolloverBegin(t)
    \/ RolloverFinish
    \/ KeyLeft
    \/ KeyRight
    \/ GetDisplayData

SpecView == InitView /\ [][NextView]_vars

(***************************************************************************)
(* Properties of the order book (checked under SpecBook)                   *)
(***************************************************************************)
\* The quantity a book holds for a side of a price; an absent level holds 0.
QtyAt(levels, price, side) ==
    IF price \in DOMAIN levels THEN levels[price][side] ELSE 0

\* C1: after any sequence of update calls (any price, any quantity, zero
\* and negative included, either side) no level of the map has both its
\* bid quantity <= 0 and its ask quantity <= 0.
C1_NoEmptyLevel ==
    \A price \in DOMAIN price_levels :
        ~(price_levels[price].bid <= 0 /\ price_levels[price].ask <= 0)

\* C1 witness: an update with a negative quantity has just cleared the last
\* side of a level, which is gone, while another level stays one-sided.
C1_Witness ==
    /\ book_call.volume < 0
    /\ book_call.price \in DOMAIN book_prev
    /\ book_call.price \notin DOMAIN price_levels
    /\ \E price \in DOMAIN price_levels :
           price_levels[price].bid = 0 /\ price_levels[price].ask > 0

\* One update call seen as a step: book_call' holds its arguments.
C2_Step ==
    LET c == book_call'
    IN  /\ c.volume > 0 =>
              /\ c.price \in DOMAIN price_levels'
              /\ price_levels'[c.price][c.side] = c.volume
              /\ QtyAt(price_levels', c.price, Other(c.side))
                     = QtyAt(price_levels, c.price, Other(c.side))
              /\ \A price \in BookPrices \ {c.price} :
                     /\ price \in DOMAIN price_levels'
                            <=> price \in DOMAIN price_levels
                     /\ price \in DOMAIN price_levels
                            => price_levels'[price] = price_levels[price]
        /\ (c.volume <= 0 /\ c.price \notin DOMAIN price_levels) =>
              price_levels' = price_levels

\* C2: update(price, q, side) with q > 0 makes the stored quantity of that
\* side at that price equal to q (overwriting, not adding) and leaves the
\* opposite side of that price and every other level unchanged; update with
\* q <= 0 on a price that is not in the book leaves the whole book unchanged.
C2_UpdateOverwrites == [][C2_Step]_vars

\* C2 witness: a positive update has overwritten a different positive
\* quantity on a level whose opposite side is positive too.
C2_Witness ==
    /\ book_call.volume > 0
    /\ book_call.price \in DOMAIN book_prev
    /\ book_prev[book_call.price][book_call.side] > 0
    /\ book_prev[book_call.price][book_call.side] # book_call.volume
    /\ book_prev[book_call.price][Other(book_call.side)] > 0
    /\ price_levels[book_call.price][book_call.side] = book_call.volume

(***************************************************************************)
(* Properties of the footprint ingestion (checked under Spec)              *)
(***************************************************************************)
Live == heap[footprint]

Last(seq) == seq[Len(seq)]

\* The kinds of step of the message handler.
BeginsRollover  == ingest_pc = "idle" /\ ingest_pc' = "evict"
FinishesRollover == ingest_pc = "evict" /\ ingest_pc' = "idle"
AcceptsInPlace  == ingest_pc = "idle" /\ ingest_pc' = "idle"
                       /\ ntrades' = ntrades + 1

\* The window that holds exactly one trade t.
OnlyTrade(w, t) ==
    /\ w.time = t.T
    /\ w.open = t.p /\ w.high = t.p /\ w.low = t.p /\ w.close = t.p
    /\ w.total_volume = t.q
    /\ w.buy_volume = (IF t.m THEN 0 ELSE t.q)
    /\ w.sell_volume = (IF t.m THEN t.q ELSE 0)
    /\ DOMAIN w.order_flows = {t.p \div PriceScale}
    /\ w.order_flows[t.p \div PriceScale] =
           [buy_volume |-> (IF t.m THEN 0 ELSE t.q),
            sell_volume |-> (IF t.m THEN t.q ELSE 0), order_count |-> 1]

\* The number of trades a window holds.
RECURSIVE CountOver(_, _)
CountOver(flows, levels) ==
    IF levels = {} THEN 0
    ELSE LET l == CHOOSE x \in levels : TRUE
         IN  flows[l].order_count + CountOver(flows, levels \ {l})
TradeCount(w) == CountOver(w.order_flows, DOMAIN w.order_flows)

\* C3: in every state reached after an onTrade call the live window
\* satisfies delta = buy_volume - sell_volume, the first trade of a window
\* and the first trade after a rollover included.
C3_DeltaIsBuyMinusSell ==
    ntrades > 0 => Live.delta = Live.buy_volume - Live.sell_volume

\* C3 witness: the first trade after a rollover has been accepted and the
\* delta of the new window is negative.
C3_Witness ==
    /\ last_kind = "rollover"
    /\ ingest_pc = "idle"
    /\ Live.sell_volume > 0
    /\ Live.delta = 0 - Live.sell_volume

C4_Step ==
    \* a trade whose key differs from the current one archives exactly once
    /\ BeginsRollover =>
          /\ GetMinuteStr(pending'.T) # current_minute
          /\ Len(orderflow_history') = Len(orderflow_history) + 1
          /\ SubSeq(orderflow_history', 1, Len(orderflow_history))
                 = orderflow_history
          /\ heap'[Last(orderflow_history')].time = Live.time
          /\ TradeCount(heap'[Last(orderflow_history')]) = TradeCount(Live)
          /\ Len(storage_queue') = Len(storage_queue) + 1
          /\ SubSeq(storage_queue', 1, Len(storage_queue)) = storage_queue
          /\ Last(storage_queue').timestamp = Live.time
    \* and the live window afterwards holds the new trade only
    /\ FinishesRollover =>
          /\ OnlyTrade(heap'[footprint'], pending)
          /\ current_minute' = GetMinuteStr(pending.T)
          /\ storage_queue' = storage_queue
          /\ \/ orderflow_history' = orderflow_history
             \/ /\ Len(orderflow_history) > HISTORY_LENGTH
                /\ orderflow_history' = Tail(orderflow_history)
    \* a trade with an unchanged key (or the very first trade) archives nothing
    /\ AcceptsInPlace =>
          /\ current_minute \in {None, current_minute'}
          /\ orderflow_history' = orderflow_history
          /\ storage_queue' = storage_queue
    \* the key changes only through an archival
    /\ (current_minute # None /\ current_minute' # current_minute) =>
          FinishesRollover

\* C4: each change of window key between consecutive trades appends exactly
\* one history entry (the closing window with all its trades) and exactly
\* one queue record, and leaves a live window whose open = high = low =
\* close is the price of the new trade and whose volumes are that trade
\* only; a trade with an unchanged key appends none.  For keys W1, W1, W2
\* this is one archived window holding both W1 trades.
C4_RolloverArchivesOnce == [][C4_Step]_vars

\* C4 witness: after trades in W1, W1, W2 on an empty history, the history
\* holds one window, with the two W1 trades, one record is queued, and the
\* live window holds the W2 trade only.
C4_Witness ==
    /\ ntrades = 3
    /\ last_kind = "rollover"
    /\ loaded_volume = 0
    /\ Len(orderflow_history) = 1
    /\ TradeCount(heap[orderflow_history[1]]) = 2
    /\ Len(storage_queue) = 1
    /\ TradeCount(Live) = 1
    /\ Live.open = Live.close /\ Live.high = Live.low
    /\ GetMinuteStr(Live.time) # GetMinuteStr(heap[orderflow_history[1]].time)

C6_HistoryWithinCapacity == Len(orderflow_history) <= HISTORY_LENGTH

\* C7 (as claimed): the history is ordered oldest-first, also when it was
\* filled by load_history_from_db, so that the first entry, the one an
\* eviction removes, has the oldest window start and the last entry is the
\* most recent window.
C7_HistoryOldestFirst ==
    \A i, j \in DOMAIN orderflow_history :
        i < j => heap[orderflow_history[i]].time
                     <= heap[orderflow_history[j]].time

C8_Step ==
    /\ BeginsRollover =>
          /\ Len(orderflow_history') = Len(orderflow_history) + 1
          /\ heap'[Last(orderflow_history')] = Live
    /\ \A i \in DOMAIN orderflow_history :
          orderflow_history[i] \in Range(orderflow_history') =>
              heap'[orderflow_history[i]] = heap[orderflow_history[i]]

\* C8: the window read back from the history (its most recent entry) after
\* an archival equals, field for field and price level for price level, the
\* live window immediately before the archival, and no later step (a
\* trade on the new live window included) changes any field of an entry
\* that stays in the history.
C8_ArchiveRoundTrip == [][C8_Step]_vars

\* C8 witness: a window was archived in this run and a later trade has
\* been accumulated into the new live window.
C8_Witness ==
    /\ ntrades = 3
    /\ last_kind = "same"
    /\ orderflow_history # <<>>
    /\ heap[Last(orderflow_history)].time \in TradeTimes
    /\ TradeCount(Live) = 2
    /\ Live # heap[Last(orderflow_history)]

\* The handler takes up a trade whose window is earlier than the current one.
TakesEarlier(t) == current_minute # None /\ GetMinuteStr(t.T) < current_minute

\* C9 (as claimed): a trade whose timestamp falls in a window earlier than
\* the current one is accumulated into the live window: no archival is
\* triggered, the history is unchanged and no window keyed by the earlier
\* time is opened.
C9_OutOfOrderStaysInWindow ==
    [][/\ (BeginsRollover /\ TakesEarlier(pending')) =>
              /\ orderflow_history' = orderflow_history
              /\ storage_queue' = storage_queue
       /\ (FinishesRollover /\ TakesEarlier(pending)) =>
              current_minute' = current_minute]_vars

C9_Step ==
    \* an earlier window is a different window: the live one is archived
    /\ (ingest_pc = "idle" /\ ntrades' = ntrades + 1
           /\ current_minute # None) =>
          /\ GetMinuteStr(last_T') = current_minute
          /\ current_minute' = current_minute
          /\ footprint' = footprint
          /\ Live.time = heap'[footprint].time
          /\ TradeCount(heap'[footprint]) = TradeCount(Live) + 1
          /\ orderflow_history' = orderflow_history
    /\ (BeginsRollover /\ TakesEarlier(pending')) =>
          /\ Len(orderflow_history') = Len(orderflow_history) + 1
          /\ heap'[Last(orderflow_history')] = Live
          /\ Len(storage_queue') = Len(storage_queue) + 1
    \* and a new live window is opened for the earlier time
    /\ (FinishesRollover /\ TakesEarlier(pending)) =>
          /\ current_minute' = GetMinuteStr(pending.T)
          /\ current_minute' < current_minute
          /\ OnlyTrade(heap'[footprint'], pending)
          /\ \A i \in DOMAIN orderflow_history' :
                 heap'[orderflow_history'[i]] = heap[orderflow_history'[i]]

\* C9 (amended): a trade whose window key differs from the current key,
\* a key earlier than the current one included, archives the live window
\* (one history entry, one queue record) and opens a new live window keyed
\* by the trade's own, earlier, window and holding that trade only; the
\* windows already archived are not modified.  Only a trade whose key
\* equals the current key is accumulated into the live window without an
\* archival, also when its timestamp is older than the window's.
C9_OutOfOrderArchives == [][C9_Step]_vars

\* C9 witness: the live window was opened by a trade of an earlier window
\* than the window archived just before it.
C9_Witness ==
    /\ ingest_pc = "idle"
    /\ last_kind = "rollover"
    /\ orderflow_history # <<>>
    /\ heap[Last(orderflow_history)].time \in TradeTimes
    /\ current_minute < GetMinuteStr(heap[Last(orderflow_history)].time)
    /\ GetMinuteStr(Live.time) = current_minute

(***************************************************************************)
(* Properties of the connection supervisor (checked under SpecConn)        *)
(***************************************************************************)
\* C10: starting from reconnect_delay = floor, after N consecutive failed
\* reconnect attempts with no inbound message in between, reconnect_delay
\* = min(floor * 2^N, ceiling) (the attempt under way has doubled it once
\* more); any inbound message, and a successful reconnect, set it back to
\* the floor.
C10_Backoff ==
    /\ (tracking /\ hd_pc # "connect") =>
          reconnect_delay = Min(ReconnectFloor * 2^fails, MaxReconnectDelay)
    /\ (tracking /\ hd_pc = "connect") =>
          reconnect_delay = Min(ReconnectFloor * 2^(fails + 1), MaxReconnectDelay)
    /\ last_conn \in {"message", "reconnected"} =>
          reconnect_delay = ReconnectFloor

\* C10 witness: the seventh consecutive failure of a run that started from
\* the floor has just happened and the delay sits at the ceiling.
C10_Witness ==
    /\ tracking
    /\ last_conn = "failed"
    /\ fails = 7
    /\ reconnect_delay = MaxReconnectDelay

\* C11 (as claimed): a reconnect that is in flight when shutdown sets
\* is_running to False creates no transport handle and does not
\* resubscribe: no handle is created while is_running is False.
C11_ShutdownAbortsReconnect ==
    [][(hd_pc = "connect" /\ last_conn' = "reconnected") => is_running]_vars

\* C12 (as claimed): silence or a transport close never ends the heartbeat
\* loop and never raises an error out of it, so that the heartbeat check
\* goes on starting reconnects for as long as the supervisor runs.
C12_HeartbeatLoopSurvives == heartbeat # "dead"

\* C13 (as claimed): while shutdown has not been requested, every failed
\* reconnect attempt is followed by another attempt, whatever the number
\* of failures before it: the failure re-enters handle_disconnect and no
\* error escapes.
C13_RetriesNeverGiveUp ==
    [][(hd_pc = "connect" /\ is_running /\ last_conn' \in {"failed", "raised"})
          => hd_pc' = "check"]_vars

(***************************************************************************)
(* Properties of the message handler on malformed payloads                 *)
(*   (C14 under SpecConn, C15 and C16 under SpecFeed)                      *)
(***************************************************************************)
\* C14 (as claimed): a payload that cannot be decoded, or whose numeric
\* field cannot be parsed, is discarded without any change of the
\* footprint, the history or the queue, and leaves last_message_time and
\* reconnect_delay exactly as they were before the message.
C14_DecodeErrorLeavesState ==
    [][(nbad' = nbad + 1 /\ last_msg'.outcome \in {"undecodable", "discarded"})
          => /\ UNCHANGED <<heap, footprint, current_minute,
                            orderflow_history, storage_queue>>
             /\ last_message_time' = last_message_time
             /\ reconnect_delay' = reconnect_delay]_vars

\* A payload with these keys lacks one the handler reads.
Lacking(has) == has \in KeySets \ {AllKeys}

\* C15 (as claimed): a trade message that lacks its price, its quantity,
\* its taker-side flag or its timestamp is discarded: the live window, the
\* current window key and the history are unchanged by it.
C15_LackingTradeDiscarded ==
    [][(\/ nbad' = nbad + 1 /\ Lacking(last_msg'.has)
        \/ AcceptsInPlace /\ Lacking(last_msg'.has)
        \/ BeginsRollover /\ Lacking(pending'.has))
          => /\ heap'[footprint'] = heap[footprint]
             /\ current_minute' = current_minute
             /\ Len(orderflow_history') = Len(orderflow_history)
             /\ \A i \in DOMAIN orderflow_history :
                    heap'[orderflow_history'[i]] = heap[orderflow_history[i]]]_vars

\* C16 (as claimed): whatever the payload (invalid JSON, JSON that is not
\* an object, a trade with a missing or non-numeric timestamp, price or
\* quantity), the handler returns normally: no exception leaves it.
C16_NoErrorEscapesHandler == last_msg.outcome # "raised"

(***************************************************************************)
(* Properties of the storage thread and of shutdown                        *)
(*   (C17 and C19 under SpecStore, C18 and C20 under SpecStop)             *)
(***************************************************************************)
\* C17 (as claimed): a write that fails does not lose the record: the
\* record leaves the queue only by being written (or after more than one
\* failed attempt, of which the loop keeps no count, so that every failed
\* write is a record's first).
C17_FailedWriteKeepsRecord ==
    [][Len(storage_queue') < Len(storage_queue)
          => Len(history_table') = Len(history_table) + 1]_vars

\* C18 (as claimed): storage_lock, which save_to_db must acquire to
\* enqueue, is never held by the storage thread while that thread performs
\* a store write, so the message handler never waits for a write.
C18_NoWriteUnderQueueLock ==
    ~(storage_pc = "write" /\ storage_lock = "storage")

\* C19 (as claimed): the queue never exceeds a fixed maximum, whatever the
\* length of the run: also with a stalled storage thread it stays below
\* the number of windows the run closes (MaxTrades - 1).
C19_QueueBounded == Len(storage_queue) < MaxTrades - 1

\* C20 (as claimed): when shutdown has returned the storage loop has
\* stopped and every record that was enqueued, also by a rollover during
\* shutdown, is in the table (no write fails in SpecStop).
C20_ShutdownDrainsQueue ==
    shutdown_pc = "done" =>
        /\ storage_pc = "exited"
        /\ storage_taken = <<>>
        /\ \A i \in DOMAIN storage_queue :
               \E j \in DOMAIN history_table :
                   history_table[j] = StoredDoc(heap, storage_queue[i])

(***************************************************************************)
(* C21: the payload of a record handed to the storage queue is fixed at    *)
(* archival.  No step of the handler (a trade of the live window, a        *)
(* rollover, a history eviction) and no step of the storage thread changes *)
(* any field of the dict a record refers to while the record is queued or  *)
(* being written, and no queued record refers to the live dict once the    *)
(* handler has returned; so the document the writer stores is the window   *)
(* as evaluate_minute left it.                                             *)
(***************************************************************************)
QueuedIds == {r.data : r \in Range(storage_taken \o storage_queue)}

C21_Step ==
    /\ \A id \in QueuedIds \cap QueuedIds' : heap'[id] = heap[id]
    /\ ingest_pc' = "idle" => footprint' \notin QueuedIds'
    /\ Len(history_table') = Len(history_table) + 1 =>
           LET rec == Head(storage_taken \o storage_queue)
           IN  /\ Last(history_table').data = heap[rec.data]
               /\ Last(history_table').timestamp = heap[rec.data].time

C21_QueuedPayloadFixed == [][C21_Step]_vars

\* A record is still queued after the handler has accepted a later trade
\* into the live window and after the history has evicted an entry.
C21_Witness ==
    /\ storage_queue # <<>>
    /\ last_kind = "same"
    /\ evictions > 0
    /\ heap[footprint].total_volume > 0
    /\ heap[Head(storage_queue).data].time # heap[footprint].time

(***************************************************************************)
(* C22: the accessors of the display return snapshots.  The dict that      *)
(* get_display_data returned still holds what it held when it was          *)
(* returned, whatever trades the handler has processed since.              *)
(***************************************************************************)
C22_AccessorReturnsSnapshot == shown # None => heap[shown] = shown_value

(***************************************************************************)
(* C23: every read and every write of the footprint state happens under    *)
(* one common lock.  The left-key handler reads the length of the history  *)
(* only while the message handler is not in the middle of a rollover       *)
(* (between the append to the history and the pop of its oldest entry).    *)
(***************************************************************************)
C23_ReadsUnderCommonLock ==
    [][(is_viewing_history /\ history_index' < history_index)
          => ingest_pc = "idle"]_vars

(***************************************************************************)
(* C24: check_consecutive_imbalances reports a run if and only if the live *)
(* window has three price levels p, p + 1, p + 2 at each of which the same *)
(* side has more than three times the volume of the other side, the other  *)
(* side being positive.  Levels that are not one tick apart give no run.   *)
(***************************************************************************)
Dominates(fl, side, other) == fl[side] > 3 * fl[other] /\ fl[other] > 0

HasRun(w, side, other) ==
    \E p \in DOMAIN w.order_flows :
        /\ {p + 1, p + 2} \subseteq DOMAIN w.order_flows
        /\ \A q \in {p, p + 1, p + 2} :
               Dominates(w.order_flows[q], side, other)

RECURSIVE SideOver(_, _, _)
SideOver(hist, prices, side) ==
    IF prices = {} THEN 0
    ELSE LET p == CHOOSE x \in prices : TRUE
         IN  SumBucket(hist, p, side) + SideOver(hist, prices \ {p}, side)

VolumeOver(hist, prices) ==
    SideOver(hist, prices, "buy_volume") + SideOver(hist, prices, "sell_volume")

\* The buckets with at least a tenth of the volume of the history.
Significant(hist) ==
    {p \in BucketPrices(hist) :
        10 * VolumeOver(hist, {p}) >= VolumeOver(hist, BucketPrices(hist))}

\* The anchors of the greedy partition of a set of prices: the lowest
\* price, then the lowest price out of its range, and so on.
RECURSIVE GreedyAnchors(_)
GreedyAnchors(S) ==
    IF S = {} THEN {}
    ELSE LET a == CHOOSE x \in S : \A y \in S : x <= y
         IN  {a} \cup GreedyAnchors({p \in S : p - a > 5})

\* The significant buckets of the zone anchored at a.
ZoneOf(hist, a) == {p \in Significant(hist) : a <= p /\ p - a <= 5}

Zones == sr_returned.value

(***************************************************************************)
(* C25 as stated: significant buckets at 100, 105 and 107 (5 and 7 from    *)
(* the first) are returned as one single zone.                             *)
(***************************************************************************)
C25_FiveAndSevenMergeIntoOne ==
    (sr_returned.called /\ Significant(HistoryWindows) = {100, 105, 107})
        => Len(Zones) = 1

(***************************************************************************)
(* C25 amended: with significant buckets at 100, 105 and 107 the bucket at *)
(* 105 is merged with the one at 100 and the bucket at 107, which is out   *)
(* of the range of the anchor 100, starts a second zone; each zone's       *)
(* classification is weighted by volume over the buckets merged into it.   *)
(***************************************************************************)
C25_FiveMergesSevenStartsZone ==
    (sr_returned.called /\ Significant(HistoryWindows) = {100, 105, 107})
        => /\ Len(Zones) = 2
           /\ Zones[1].price = 100
           /\ Zones[1].volume = VolumeOver(HistoryWindows, {100, 105})
           /\ Zones[1].type = "support" <=>
                  SideOver(HistoryWindows, {100, 105}, "buy_volume")
                      > SideOver(HistoryWindows, {100, 105}, "sell_volume")
           /\ Zones[2].price = 107
           /\ Zones[2].volume = VolumeOver(HistoryWindows, {107})

\* The three buckets are significant, the bucket at 100 alone is support,
\* and the zone of 100 and 105 is resistance by volume.
C25_Witness ==
    /\ sr_returned.called
    /\ Significant(HistoryWindows) = {100, 105, 107}
    /\ SideOver(HistoryWindows, {100}, "buy_volume")
           > SideOver(HistoryWindows, {100}, "sell_volume")
    /\ Len(Zones) = 2
    /\ Zones[1].type = "resistance"

RECURSIVE SumStrengthNum(_)
SumStrengthNum(zones) ==
    IF zones = <<>> THEN 0
    ELSE Head(zones).strength.num + SumStrengthNum(Tail(zones))

Near(w, z) ==
    /\ w.close - z.price * PriceScale <= 5 * PriceScale
    /\ z.price * PriceScale - w.close <= 5 * PriceScale

QualifiesBuy(w, z) ==
    /\ Near(w, z) /\ z.type = "resistance" /\ w.close < w.open
    /\ w.sell_volume > 0 /\ w.buy_volume > 2 * w.sell_volume

QualifiesSell(w, z) ==
    /\ Near(w, z) /\ z.type = "support" /\ w.close > w.open
    /\ w.buy_volume > 0 /\ w.sell_volume > 2 * w.buy_volume

C28_Step ==
    reversal_signal' # reversal_signal =>
        LET w   == heap[footprint]
            lv  == support_resistance_levels
            ok  == IF w.close = None THEN {}
                   ELSE {k \in DOMAIN lv :
                            QualifiesBuy(w, lv[k]) \/ QualifiesSell(w, lv[k])}
        IN  IF ok = {}
            THEN reversal_signal'.signal = "none"
            ELSE LET k == CHOOSE x \in ok : \A y \in ok : x <= y
                 IN  /\ reversal_signal'.level_price = lv[k].price
                     /\ reversal_signal'.signal =
                            IF QualifiesBuy(w, lv[k]) THEN "BUY" ELSE "SELL"

C28_FirstQualifyingZone == [][C28_Step]_vars

\* The first zone is near the close and does not qualify; the signal is
\* the one of the second zone.
C28_Witness ==
    /\ Len(support_resistance_levels) >= 2
    /\ Near(heap[footprint], support_resistance_levels[1])
    /\ reversal_signal.signal = "BUY"
    /\ reversal_signal.level_price = support_resistance_levels[2].price

(***************************************************************************)
(* C29: the best bid and the best ask are never stale.  Once they have     *)
(* been computed, the best bid recorded is the highest price with bid      *)
(* quantity > 0 and the best ask the lowest price with ask quantity > 0 of *)
(* the current map (none when there is no such level), after every update  *)
(* call and without a refresh call in between.                             *)
(***************************************************************************)
C29_BestPricesNeverStale ==
    best_bid # Unset =>
        /\ best_bid = BestOf(price_levels, "bid")
        /\ best_ask = BestOf(price_levels, "ask")

(***************************************************************************)
(* C30: the last traded price is changed by update_current_price only: no  *)
(* update of a level, no computation of the best prices and no             *)
(* clean_old_levels changes current_price, and update_current_price        *)
(* changes no level.                                                       *)
(***************************************************************************)
C30_LastTradePriceOnlySetByTrade ==
    [][/\ current_price' # current_price => book_call'.side = "trade"
       /\ (book_call' # book_call /\ book_call'.side = "trade")
              => price_levels' = price_levels]_vars

(***************************************************************************)
(* Properties of clean_old_levels (C31, under SpecPrune)                   *)
(***************************************************************************)
\* C31: a call of clean_old_levels with the reference price r = current_price
\* and the range d = price_range leaves exactly the levels whose price is in
\* [r - d, r + d]: every remaining level is inside the interval (bounds
\* included), every level that was inside is still there with both
\* quantities unchanged, and while no price has been recorded (current_price
\* is None) the call changes nothing.
C31_PruneKeepsExactlyTheInterval ==
    book_call.side = "clean" =>
        IF current_price = None
        THEN price_levels = book_prev
        ELSE /\ \A p \in DOMAIN price_levels :
                    /\ current_price - BookPriceRange <= p
                    /\ p <= current_price + BookPriceRange
             /\ \A p \in DOMAIN book_prev :
                    (/\ current_price - BookPriceRange <= p
                     /\ p <= current_price + BookPriceRange)
                    => /\ p \in DOMAIN price_levels
                       /\ price_levels[p].ask = book_prev[p].ask
                       /\ price_levels[p].bid = book_prev[p].bid

\* After a call that removed a level and kept a level that lies on a bound
\* of the interval.
C31_Witness ==
    /\ book_call.side = "clean"
    /\ current_price # None
    /\ DOMAIN book_prev # DOMAIN price_levels
    /\ \E p \in DOMAIN price_levels :
           \/ p = current_price - BookPriceRange
           \/ p = current_price + BookPriceRange

\* After a call made while current_price is None, on a book with levels.
C31_WitnessNoPrice ==
    /\ book_call.side = "clean"
    /\ current_price = None
    /\ price_levels # <<>>
(***************************************************************************)
(* OHLC of the live window (C32, under SpecOhlc)                           *)
(***************************************************************************)
\* C32: open is the price of the window's first trade and stays as it is
\* within the window, close is the price of the latest trade, high never
\* decreases and low never increases within a window, and after every
\* accepted trade low <= open <= high and low <= close <= high.
C32_Step ==
    /\ \A t \in OhlcTrades :
           FirstTrade(t) =>
               /\ Live'.open = t.p /\ Live'.close = t.p
               /\ Live'.high = t.p /\ Live'.low = t.p
    /\ RolloverFinish =>
           /\ Live'.open = pending.p /\ Live'.close = pending.p
           /\ Live'.high = pending.p /\ Live'.low = pending.p
    /\ \A t \in OhlcTrades :
           SameWindow(t) =>
               /\ Live'.open = Live.open
               /\ Live'.close = t.p
               /\ Live'.high >= Live.high
               /\ Live'.low <= Live.low
    /\ (ntrades' > 0 /\ ingest_pc' = "idle") =>
           /\ Live'.low <= Live'.open /\ Live'.open <= Live'.high
           /\ Live'.low <= Live'.close /\ Live'.close <= Live'.high

C32_OhlcOfLiveWindow == [][C32_Step]_vars

\* A window after its third trade: open lies strictly between low and high
\* and close differs from open.
C32_Witness ==
    /\ ingest_pc = "idle"
    /\ last_kind = "same"
    /\ Live.low < Live.open
    /\ Live.open < Live.high
    /\ Live.close # Live.open
(***************************************************************************)
(* Malformed depth updates (C33, under SpecDepth)                          *)
(***************************************************************************)
\* C33: a depthUpdate message with a malformed [price, quantity] entry is
\* discarded as a whole: after the handler has returned, the book is as it
\* was before the message, the well-formed entries before and after the
\* bad one having not been applied.
C33_MalformedDepthDiscarded ==
    book_call.side = "depth_malformed" => price_levels = book_prev
(***************************************************************************)
(* Signal analysis at the rollover (C34, under Spec)                       *)
(***************************************************************************)
\* C34: when the handler has finished a rollover, the stored
\* support/resistance levels are those analyze_support_resistance computes
\* over the history that holds the window just archived.
C34_AnalysisRunsOnRollover ==
    (last_kind = "rollover" /\ ingest_pc = "idle")
        => support_resistance_levels = MergedLevels(HistoryWindows)
(***************************************************************************)
(* handle_disconnect in two threads (C35 and C36 under SpecRace, C37       *)
(* under SpecBeat)                                                         *)
(***************************************************************************)
InDisconnect(th) ==
    th_pc[th] \in {"check", "sleep", "write", "stop", "create", "subscribe"}

\* C35: reconnect_delay is at least 1 and at most 60 in every state, however
\* handle_disconnect in the heartbeat thread, handle_disconnect in the
\* on_close callback and the message handler interleave.
C35_DelayWithinBounds ==
    /\ ReconnectFloor <= reconnect_delay
    /\ reconnect_delay <= MaxReconnectDelay

\* Both threads are inside handle_disconnect, one of them about to double
\* a delay that is already at the ceiling, after a message has been handled.
C35_Witness ==
    /\ InDisconnect("heartbeat")
    /\ th_pc["on_close"] = "write"
    /\ th_read["on_close"] = MaxReconnectDelay
    /\ reconnect_delay = MaxReconnectDelay
    /\ last_conn = "message"

\* C36: at most one client is live: every client ever created is the
\* current one, or has been stopped, or has lost its connection, and no
\* two clients deliver messages to the handler.
C36_OneLiveClient ==
    /\ \A h \in DOMAIN handles :
           h = umfclient \/ handles[h].stopped \/ handles[h].closed
    /\ \A g, h \in DOMAIN handles : (Delivers(g) /\ Delivers(h)) => g = h

\* The second half alone: no two clients deliver messages.
C36_NoTwoDeliver ==
    \A g, h \in DOMAIN handles : (Delivers(g) /\ Delivers(h)) => g = h

\* C37: heartbeat_check starts a reconnect only when no successful
\* reconnect has been completed within the last HeartbeatInterval seconds.
C37_HeartbeatSparesFreshConnection ==
    [][(th_pc["heartbeat"] = "test" /\ th_pc'["heartbeat"] = "check")
       => (reconnected_at = None
           \/ now - reconnected_at > HeartbeatInterval)]_vars
(***************************************************************************)
(* Volume accounting of the live window (C38, under SpecLedger)            *)
(***************************************************************************)
RECURSIVE SumLevels(_, _, _)
\* The sum of a field over the price levels in a set.
SumLevels(flows, levels, field) ==
    IF levels = {} THEN 0
    ELSE LET lvl == CHOOSE x \in levels : TRUE
         IN  flows[lvl][field] + SumLevels(flows, levels \ {lvl}, field)

LevelSum(w, field) == SumLevels(w.order_flows, DOMAIN w.order_flows, field)

RECURSIVE FloatSumLevels(_, _, _)
\* The same sum computed in floats, from the lowest level up.
FloatSumLevels(flows, levels, field) ==
    IF levels = {} THEN 0
    ELSE LET lvl == CHOOSE x \in levels : \A y \in levels : y <= x
         IN  FloatAdd(FloatSumLevels(flows, levels \ {lvl}, field),
                      flows[lvl][field])

FloatLevelSum(w, field) ==
    FloatSumLevels(w.order_flows, DOMAIN w.order_flows, field)

\* C38: after every accepted trade the live window has total_volume equal
\* to buy_volume + sell_volume, the buy and sell volumes of the price levels
\* add up to the window's buy and sell volume, and the order counts of the
\* levels add up to the number of trades of the window.  Each sum of
\* volumes may be read as a sum of numbers or as the float sum a program
\* would compute.
C38_Step ==
    ntrades' = ntrades + 1 =>
        /\ \/ Live'.total_volume = Live'.buy_volume + Live'.sell_volume
           \/ Live'.total_volume
                  = FloatAdd(Live'.buy_volume, Live'.sell_volume)
        /\ \/ LevelSum(Live', "buy_volume") = Live'.buy_volume
           \/ FloatLevelSum(Live', "buy_volume") = Live'.buy_volume
        /\ \/ LevelSum(Live', "sell_volume") = Live'.sell_volume
           \/ FloatLevelSum(Live', "sell_volume") = Live'.sell_volume
        /\ LevelSum(Live', "order_count")
              = IF last_kind' = "same"
                THEN LevelSum(Live, "order_count") + 1 ELSE 1

C38_VolumeAccounting == [][C38_Step]_vars

\* The records save_to_db has put on the queue so far, in a run where
\* every trade after the first closes a window.
Archived ==
    IF ntrades = 0 THEN 0
    ELSE ntrades - 1 + (IF ingest_pc = "evict" THEN 1 ELSE 0)

\* C39 (as claimed): each archived record is written to the store at most
\* once, whatever the interleaving of the storage thread with shutdown's
\* flush, also when the join times out and when shutdown is called twice:
\* the table never holds more documents than records were archived.
C39_WrittenAtMostOnce == Len(history_table) <= Archived

\* C40 (as claimed): analyze_support_resistance returns a list of zones
\* and never raises, whatever the history, also a non-empty history whose
\* windows hold only zero-quantity trades: no division by zero.
C40_AnalysisNeverRaises == ~sr_returned.raised

====
